---- MODULE Spec2Model ----
(***************************************************************************)
(* Model of the contract-analysis backend:                                 *)
(*   - contract_analyzer.py: ContractAnalyzer._merge_lists / _merge_dicts  *)
(*     / _merge_analyses and _create_structured_analysis (the analysis     *)
(*     merger and the typed result assembly), _chunk_text (the chunker)    *)
(*     and analyze_contract with _analyze_chunk (the orchestrator);        *)
(*   - contract_chat.py and app.py: ContractChat.get_response behind the   *)
(*     /contractIQ endpoint (the conversation manager).                    *)
(*   - risk_assessment.py and app.py: ContractRiskAssessor.assess_risks    *)
(*     and get_cached_assessment behind the /riskassess endpoint (the risk *)
(*     assessor).                                                          *)
(*                                                                         *)
(* A Python str is a sequence of one-character strings, so that lower(),   *)
(* str(), split('. ') and ' '.join() are computed and not assumed.  A JSON *)
(* value is a tagged record: t is the Python type, v the payload.  A dict  *)
(* is a function from its keys (plain strings, only ever compared) to      *)
(* values; an exception is the value Raised.                               *)
(***************************************************************************)
EXTENDS Integers, Sequences, FiniteSets, TLC

VARIABLES
    \* _merge_lists(existing, new) applied to one pair of lists
    l_existing, l_new, l_merged, lpc,
    \* _merge_analyses(analyses) followed by _create_structured_analysis
    analyses, merged, chunk_i, warnings, structured, mpc,
    \* _chunk_text(text, max_tokens)
    text, max_tokens, sentences, sent_i, current_chunk_sentences,
    current_chunk_tokens, chunks, chunk_parts, cpc,
    \* analyze_contract(contract_text): the calls made to the gateway, the
    \* loop index, the value returned
    gateway_calls, a_i, analysis_result, apc,
    \* ContractChat: the session table, the history table, the list objects
    \* the histories are, chat_storage/chat_histories.json, the clock
    contract_contexts, chat_histories, lists, history_file, now,
    \* the chat_messages table behind the /contractIQ endpoint
    chat_messages,
    \* one chat turn per thread: who called get_response, its arguments, the
    \* request sent to the gateway, its response, the ChatMessage returned
    chat_pc, caller, contract_id, message, contract_text, chat_history,
    request_data, chat_response, chat_message,
    \* the summary of lines 140-154 of risk_assessment.py applied to one
    \* parsed response
    s_data, s_risks, s_summary, spc,
    \* the analysis_results table, the risk_assessments directory, the calls
    \* made to the gateway by assess_risks, the clock
    analysis_results, risk_files, risk_calls, risk_now,
    \* one /riskassess request or one direct call: who called, the request's
    \* contract id, the analysis handed to assess_risks, the response of the
    \* gateway, what assess_risks or get_cached_assessment returned,
    \* the response of the endpoint
    risk_pc, risk_caller, risk_contract_id, contract_analysis,
    gateway_response, assessment_result, risk_response

listVars == <<l_existing, l_new, l_merged, lpc>>
mergeVars == <<analyses, merged, chunk_i, warnings, structured, mpc>>
chunkVars == <<text, max_tokens, sentences, sent_i, current_chunk_sentences,
               current_chunk_tokens, chunks, chunk_parts, cpc>>
analyzeVars == <<gateway_calls, a_i, analysis_result, apc>>
sessionVars == <<contract_contexts, chat_histories, lists, history_file, now, chat_messages>>
turnVars == <<chat_pc, caller, contract_id, message, contract_text, chat_history,
              request_data, chat_response, chat_message>>
chatVars == <<sessionVars, turnVars>>
summaryVars == <<s_data, s_risks, s_summary, spc>>
storeVars == <<analysis_results, risk_files, risk_calls, risk_now>>
requestVars == <<risk_pc, risk_caller, risk_contract_id, contract_analysis,
                 gateway_response, assessment_result, risk_response>>
riskVars == <<summaryVars, storeVars, requestVars>>
vars == <<listVars, mergeVars, chunkVars, analyzeVars, chatVars, riskVars>>

(***************************************************************************)
(* Bounds of the model.                                                    *)
(***************************************************************************)
MaxListLen == 2
MaxChunks == 3
MaxTextLen == 6
MaxBudget == 3
MaxStored == 3
MaxTurns == 2
MaxRisks == 3
MaxAssessments == 2

(***************************************************************************)
(* JSON values.                                                            *)
(***************************************************************************)
Null == [t |-> "null"]
Str(s) == [t |-> "str", v |-> s]
Num(n) == [t |-> "num", v |-> n]
Bool(b) == [t |-> "bool", v |-> b]
List(l) == [t |-> "list", v |-> l]
Dict(f) == [t |-> "dict", v |-> f]
EmptyDict == Dict([k \in {} |-> Null])
EmptyStr == Str(<<>>)
Raised == [t |-> "raise"]

\* "not_found_in_chunk"
Sentinel ==
    Str(<<"n","o","t","_","f","o","u","n","d","_","i","n","_","c","h","u","n","k">>)

(***************************************************************************)
(* str.lower() and str(item), character by character.                      *)
(***************************************************************************)
UpperChars == <<"A","B","C","D","E","F","G","H","I","J","K","L","M",
                "N","O","P","Q","R","S","T","U","V","W","X","Y","Z">>
LowerChars == <<"a","b","c","d","e","f","g","h","i","j","k","l","m",
                "n","o","p","q","r","s","t","u","v","w","x","y","z">>
LowerChar(c) ==
    IF \E i \in 1..Len(UpperChars) : UpperChars[i] = c
    THEN LowerChars[CHOOSE i \in 1..Len(UpperChars) : UpperChars[i] = c]
    ELSE c
Lower(s) == [i \in 1..Len(s) |-> LowerChar(s[i])]

Digits == <<"0","1","2","3","4","5","6","7","8","9">>
RECURSIVE DecStr(_)
DecStr(n) ==
    IF n < 10 THEN <<Digits[n + 1]>>
    ELSE DecStr(n \div 10) \o <<Digits[(n % 10) + 1]>>

\* str(item) of an item that is not a str: a number, None, True or False
PyStr(item) ==
    CASE item.t = "num" -> DecStr(item.v)
      [] item.t = "null" -> <<"N","o","n","e">>
      [] item.t = "bool" -> IF item.v THEN <<"T","r","u","e">>
                                      ELSE <<"F","a","l","s","e">>

(***************************************************************************)
(* _merge_lists                                                            *)
(***************************************************************************)
\* the comparison key without lower(): two spellings of one word stay apart
ItemKeyCaseSensitive(item) ==
    IF item.t = "str" THEN item.v ELSE PyStr(item)

ItemKey(item) ==
    IF item.t = "str" THEN Lower(item.v) ELSE PyStr(item)

RECURSIVE MergeListsFrom(_, _, _)
\* the loop over existing + new: items still to visit, seen, merged
MergeListsFrom(items, seen, acc) ==
    IF items = <<>> THEN acc
    ELSE LET item == Head(items)
             item_key == ItemKey(item)
         IN IF item_key \notin seen
            THEN MergeListsFrom(Tail(items), seen \cup {item_key}, Append(acc, item))
            ELSE MergeListsFrom(Tail(items), seen, acc)

\* only the new items are compared with what is there: existing stays as is
MergeListsKeepExisting(existing, new) ==
    existing \o SelectSeq(MergeListsFrom(existing \o new, {}, <<>>),
                          LAMBDA item : \A i \in 1..Len(existing) : existing[i] # item)

_merge_lists(existing, new) == MergeListsFrom(existing \o new, {}, <<>>)

(***************************************************************************)
(* _merge_dicts                                                            *)
(***************************************************************************)
\* the scalar branch with the emptiness test dropped: the later value wins
MergeScalarLastWins(m, n) == n

\* "For scalar values, prefer non-null values"
MergeScalar(m, n) ==
    IF m = Null \/ m = EmptyStr THEN n ELSE m

RECURSIVE _merge_dicts(_, _)

\* the three branches taken when the key is already in merged
MergeValue(m, n) ==
    IF n.t = "list"
    THEN IF m.t = "list" THEN List(_merge_lists(m.v, n.v))
         ELSE Raised                      \* merged[key] + new_value: TypeError
    ELSE IF n.t = "dict" THEN _merge_dicts(m, n)
    ELSE MergeScalar(m, n)

_merge_dicts(existing, new) ==
    IF existing.t \notin {"dict", "list"} THEN Raised   \* no .copy()
    ELSE IF new.t # "dict" THEN Raised                  \* no .items()
    ELSE LET live == {key \in DOMAIN new.v : new.v[key] # Sentinel}
         IN IF existing.t = "list"
            \* a list copies, but cannot take a key
            THEN IF live = {} THEN existing ELSE Raised
            ELSE LET keys == DOMAIN existing.v \cup live
                     val == [key \in keys |->
                               IF key \notin live THEN existing.v[key]
                               ELSE IF key \notin DOMAIN existing.v THEN new.v[key]
                               ELSE MergeValue(existing.v[key], new.v[key])]
                 IN IF \E key \in keys : val[key] = Raised THEN Raised
                    ELSE Dict(val)

(***************************************************************************)
(* _parse_api_response: an envelope is {'content': [{'text': ...}]}; the   *)
(* text is a JSON document (json.loads gives its value) or is not JSON.    *)
(***************************************************************************)
JsonText(value) == [wellformed |-> TRUE, value |-> value]
NotJson == [wellformed |-> FALSE]
Envelope(doc) == [content |-> <<[text |-> doc]>>]

_parse_api_response(response) ==
    IF "content" \notin DOMAIN response THEN Raised          \* KeyError
    ELSE IF response.content = <<>> THEN Raised              \* IndexError
    ELSE IF "text" \notin DOMAIN response.content[1] THEN Raised
    ELSE IF ~response.content[1].text.wellformed THEN Raised \* JSONDecodeError
    ELSE response.content[1].text.value

(***************************************************************************)
(* _merge_analyses                                                         *)
(***************************************************************************)
Skeleton ==
    Dict([metadata |-> EmptyDict,
          classification |->
              Dict([type |-> Null, primaryCharacteristics |-> List(<<>>)]),
          compensation |->
              Dict([baseCompensation |-> EmptyDict,
                    commission |-> Dict([tiers |-> List(<<>>), caps |-> EmptyDict])]),
          termination |->
              Dict([noticePeriod |-> EmptyDict,
                    immediateTerminationClauses |-> List(<<>>),
                    postTerminationObligations |-> List(<<>>)]),
          intellectualProperty |->
              Dict([ownership |-> EmptyDict, moralRights |-> EmptyDict]),
          restrictiveCovenants |->
              Dict([nonCompete |-> EmptyDict, nonSolicitation |-> EmptyDict]),
          confidentiality |->
              Dict([scope |-> List(<<>>), duration |-> EmptyDict,
                    exceptions |-> List(<<>>)]),
          liability |->
              Dict([indemnification |-> EmptyDict, limitations |-> EmptyDict])])

\* the except clause leaving the loop (break) where the code goes on (continue)
FoldChunkBreak(acc, analysis) ==
    LET chunk_data == _parse_api_response(analysis)
        out == IF chunk_data = Raised THEN Raised ELSE _merge_dicts(acc, chunk_data)
    IN IF out = Raised
       THEN [merged |-> acc, warned |-> TRUE, go |-> FALSE]
       ELSE [merged |-> out, warned |-> FALSE, go |-> TRUE]

\* the loop body merging into the accumulator itself: the fields of a chunk
\* that merged before the one that raises stay applied
FoldChunkInPlace(acc, analysis) ==
    LET chunk_data == _parse_api_response(analysis)
        out == IF chunk_data = Raised THEN Raised ELSE _merge_dicts(acc, chunk_data)
        only(key) == Dict([k \in {key} |-> chunk_data.v[k]])
        applied == {key \in DOMAIN chunk_data.v : _merge_dicts(acc, only(key)) # Raised}
        partly == _merge_dicts(acc, Dict([k \in applied |-> chunk_data.v[k]]))
    IN IF out = Raised
       THEN [merged |-> IF chunk_data # Raised /\ chunk_data.t = "dict" THEN partly ELSE acc,
             warned |-> TRUE, go |-> TRUE]
       ELSE [merged |-> out, warned |-> FALSE, go |-> TRUE]

\* one pass of the loop body: try parse and merge; except: warn and continue
FoldChunk(acc, analysis) ==
    LET chunk_data == _parse_api_response(analysis)
        out == IF chunk_data = Raised THEN Raised ELSE _merge_dicts(acc, chunk_data)
    IN IF out = Raised
       THEN [merged |-> acc, warned |-> TRUE, go |-> TRUE]
       ELSE [merged |-> out, warned |-> FALSE, go |-> TRUE]

(***************************************************************************)
(* _create_structured_analysis                                             *)
(***************************************************************************)
\* d[key]: KeyError when the key is missing
Subscript(d, key) ==
    IF d = Raised \/ d.t # "dict" THEN Raised
    ELSE IF key \notin DOMAIN d.v THEN Raised
    ELSE d.v[key]

\* d.get(key, default)
DictGet(d, key, default) ==
    IF d = Raised \/ d.t # "dict" THEN Raised
    ELSE IF key \in DOMAIN d.v THEN d.v[key]
    ELSE default

_create_structured_analysis(merged_data) ==
    LET baseCompensation == Subscript(Subscript(merged_data, "compensation"), "baseCompensation")
        commission == Subscript(Subscript(merged_data, "compensation"), "commission")
        section(name, key) == Subscript(Subscript(merged_data, name), key)
        fields ==
          [metadata |-> Subscript(merged_data, "metadata"),
           classification |-> Subscript(merged_data, "classification"),
           base_type |-> DictGet(baseCompensation, "type", Null),
           base_amount |-> DictGet(baseCompensation, "amount", Null),
           base_currency |-> DictGet(baseCompensation, "currency", Null),
           base_frequency |-> DictGet(baseCompensation, "frequency", Null),
           base_isGuaranteed |-> DictGet(baseCompensation, "isGuaranteed", Bool(FALSE)),
           commission_type |-> DictGet(commission, "type", Null),
           commission_baseRate |-> DictGet(commission, "baseRate", Num(0)),
           commission_tiers |-> DictGet(commission, "tiers", List(<<>>)),
           commission_caps |-> DictGet(commission, "caps", Dict([exists |-> Bool(FALSE)])),
           noticePeriod |-> section("termination", "noticePeriod"),
           immediateTerminationClauses |-> section("termination", "immediateTerminationClauses"),
           postTerminationObligations |-> section("termination", "postTerminationObligations"),
           ownership |-> section("intellectualProperty", "ownership"),
           moralRights |-> section("intellectualProperty", "moralRights"),
           nonCompete |-> section("restrictiveCovenants", "nonCompete"),
           nonSolicitation |-> section("restrictiveCovenants", "nonSolicitation"),
           scope |-> section("confidentiality", "scope"),
           duration |-> section("confidentiality", "duration"),
           exceptions |-> section("confidentiality", "exceptions"),
           indemnification |-> section("liability", "indemnification"),
           limitations |-> section("liability", "limitations")]
    IN IF \E f \in DOMAIN fields : fields[f] = Raised THEN Raised ELSE fields

(***************************************************************************)
(* The inputs of the merger: the envelopes a chunk call can return.        *)
(***************************************************************************)
S_NDA == <<"N","D","A">>
S_nda == <<"n","d","a">>
S_Confidentiality == <<"C","o","n","f","i","d","e","n","t","i","a","l","i","t","y">>
S_Acme == <<"A","c","m","e">>
S_salary == <<"s","a","l","a","r","y">>
S_na == <<"n","/","a">>
S_5 == <<"5">>

BaseComp(f) == Dict([compensation |-> Dict([baseCompensation |-> Dict(f)])])
Parties(employer) == Dict([metadata |-> Dict([parties |-> Dict([employer |-> employer])])])

\* chunk A and chunk B of the spec's scalar conflict
PartialA == BaseComp([amount |-> Num(5000), type |-> Str(S_salary)])
PartialB == BaseComp([amount |-> Num(6000)])
\* nothing found in the chunk: a field and a section carry the sentinel
PartialNotFound ==
    Dict([compensation |-> Dict([baseCompensation |-> Dict([amount |-> Sentinel])]),
          confidentiality |-> Sentinel,
          classification |-> Dict([type |-> Sentinel])])
\* null and empty string
PartialEmpty ==
    Dict([compensation |-> Dict([baseCompensation |-> Dict([amount |-> Null])]),
          classification |-> Dict([type |-> EmptyStr])])
PartialConfidentiality ==
    Dict([confidentiality |->
              Dict([scope |-> List(<<Str(S_NDA), Str(S_nda)>>),
                    duration |-> Dict([years |-> Num(2)])])])
PartialClassification ==
    Dict([classification |->
              Dict([type |-> Str(S_NDA),
                    primaryCharacteristics |-> List(<<Str(S_Confidentiality)>>)]),
          confidentiality |-> Dict([scope |-> List(<<Str(S_Confidentiality)>>)])])
\* a record the skeleton does not hold, first with the sentinel, then with a value
PartialPartiesNotFound == Parties(Sentinel)
PartialParties == Parties(Str(S_Acme))
\* wrong types that the scalar branch ignores
PartialWrongKept ==
    Dict([compensation |-> Str(S_na), liability |-> Null, termination |-> Num(0),
          confidentiality |-> Dict([scope |-> Str(S_na)])])
\* a wrong type that raises: a list meeting the record under metadata
PartialWrongRaises ==
    Dict([metadata |-> List(<<Str(S_na)>>),
          confidentiality |-> Dict([scope |-> List(<<Str(S_NDA)>>)])])

\* a list under a key the skeleton does not hold, in two chunks
PartialKeywords ==
    Dict([metadata |-> Dict([keywords |-> List(<<Str(S_NDA), Str(S_nda)>>)])])
PartialKeywordsMore ==
    Dict([metadata |-> Dict([keywords |-> List(<<Str(S_Confidentiality), Str(S_NDA)>>)])])

Partials ==
    {PartialA, PartialB, PartialNotFound, PartialEmpty, PartialConfidentiality,
     PartialClassification, PartialPartiesNotFound, PartialParties,
     PartialWrongKept, PartialWrongRaises, PartialKeywords, PartialKeywordsMore}

\* envelopes that do not parse: no 'content' key; text that is not JSON
EnvelopeNoContent == [type |-> "error"]
EnvelopeNotJson == Envelope(NotJson)

Envelopes ==
    {Envelope(JsonText(p)) : p \in Partials} \cup {EnvelopeNoContent, EnvelopeNotJson}

RECURSIVE SeqsUpTo(_, _)
\* the sequences over S of length at most n
SeqsUpTo(S, n) ==
    IF n = 0 THEN {<<>>}
    ELSE LET shorter == SeqsUpTo(S, n - 1)
         IN shorter \cup {Append(s, x) : s \in {q \in shorter : Len(q) = n - 1}, x \in S}

(***************************************************************************)
(* Idle values of the groups of variables.                                 *)
(***************************************************************************)
ListIdle ==
    /\ l_existing = <<>> /\ l_new = <<>> /\ l_merged = <<>> /\ lpc = "idle"
MergeIdle ==
    /\ analyses = <<>> /\ merged = Null /\ chunk_i = 0 /\ warnings = <<>>
    /\ structured = Null /\ mpc = "idle"
ChunkIdle ==
    /\ text = <<>> /\ max_tokens = 0 /\ sentences = <<>> /\ sent_i = 0
    /\ current_chunk_sentences = <<>> /\ current_chunk_tokens = 0
    /\ chunks = <<>> /\ chunk_parts = <<>> /\ cpc = "idle"
AnalyzeIdle ==
    /\ gateway_calls = <<>> /\ a_i = 0 /\ analysis_result = Null /\ apc = "idle"
ChatIdle ==
    /\ contract_contexts = <<>> /\ chat_histories = <<>> /\ lists = <<>>
    /\ history_file = <<>> /\ now = 0 /\ chat_messages = <<>>
    /\ chat_pc = <<>> /\ caller = <<>> /\ contract_id = <<>> /\ message = <<>>
    /\ contract_text = <<>> /\ chat_history = <<>> /\ request_data = <<>>
    /\ chat_response = <<>> /\ chat_message = <<>>
SummaryIdle ==
    /\ s_data = Null /\ s_risks = Null /\ s_summary = Null /\ spc = "idle"
RiskIdle ==
    /\ analysis_results = <<>> /\ risk_files = <<>> /\ risk_calls = <<>>
    /\ risk_now = 0 /\ risk_pc = "idle" /\ risk_caller = "none"
    /\ risk_contract_id = "none" /\ contract_analysis = Null
    /\ gateway_response = Null
    /\ assessment_result = Null /\ risk_response = Null

(***************************************************************************)
(* _merge_analyses and _create_structured_analysis as called by            *)
(* analyze_contract, one loop pass per step.                               *)
(***************************************************************************)
MergeInit ==
    /\ analyses \in SeqsUpTo(Envelopes, MaxChunks)
    /\ merged = Null /\ chunk_i = 0 /\ warnings = <<>> /\ structured = Null
    /\ mpc = "call"
    /\ ListIdle /\ ChunkIdle /\ AnalyzeIdle /\ ChatIdle /\ SummaryIdle /\ RiskIdle

\* lines 218-250: reject an empty list, else build the skeleton
MergeAnalysesEnter ==
    /\ mpc = "call"
    /\ IF analyses = <<>>
       THEN /\ mpc' = "raised"
            /\ UNCHANGED <<merged, chunk_i>>
       ELSE /\ mpc' = "loop"
            /\ merged' = Skeleton
            /\ chunk_i' = 1
    /\ UNCHANGED <<analyses, warnings, structured, listVars, chunkVars, analyzeVars, chatVars, riskVars>>

\* lines 252-258: one pass of the loop
MergeAnalysesLoop ==
    /\ mpc = "loop"
    /\ chunk_i <= Len(analyses)
    /\ LET out == FoldChunk(merged, analyses[chunk_i])
       IN /\ merged' = out.merged
          /\ warnings' = IF out.warned THEN Append(warnings, chunk_i) ELSE warnings
          /\ chunk_i' = IF out.go THEN chunk_i + 1 ELSE Len(analyses) + 1
    /\ UNCHANGED <<analyses, structured, mpc, listVars, chunkVars, analyzeVars, chatVars, riskVars>>

\* line 260
MergeAnalysesReturn ==
    /\ mpc = "loop"
    /\ chunk_i > Len(analyses)
    /\ mpc' = "returned"
    /\ UNCHANGED <<analyses, merged, chunk_i, warnings, structured, listVars, chunkVars, analyzeVars, chatVars, riskVars>>

\* analyze_contract line 331
CreateStructuredAnalysis ==
    /\ mpc = "returned"
    /\ structured' = _create_structured_analysis(merged)
    /\ mpc' = IF structured' = Raised THEN "promote_raised" ELSE "promoted"
    /\ UNCHANGED <<analyses, merged, chunk_i, warnings, listVars, chunkVars, analyzeVars, chatVars, riskVars>>

MergeNext ==
    \/ MergeAnalysesEnter
    \/ MergeAnalysesLoop
    \/ MergeAnalysesReturn
    \/ CreateStructuredAnalysis

MergeSpec == MergeInit /\ [][MergeNext]_vars

(***************************************************************************)
(* _merge_lists applied to one pair of lists.  The items are strings and   *)
(* numbers, one string spelled like a number's str().                      *)
(***************************************************************************)
Items == {Str(S_NDA), Str(S_nda), Str(S_Confidentiality), Str(S_5), Num(5)}

ListInit ==
    /\ l_existing \in SeqsUpTo(Items, MaxListLen)
    /\ l_new \in SeqsUpTo(Items, MaxListLen)
    /\ l_merged = <<>>
    /\ lpc = "call"
    /\ MergeIdle /\ ChunkIdle /\ AnalyzeIdle /\ ChatIdle /\ SummaryIdle /\ RiskIdle

\* _merge_dicts line 206: merged[key] = self._merge_lists(merged[key], new_value)
MergeListsCall ==
    /\ lpc = "call"
    /\ l_merged' = _merge_lists(l_existing, l_new)
    /\ lpc' = "returned"
    /\ UNCHANGED <<l_existing, l_new, mergeVars, chunkVars, analyzeVars, chatVars, riskVars>>

ListNext == MergeListsCall

ListSpec == ListInit /\ [][ListNext]_vars

(***************************************************************************)
(* _chunk_text                                                             *)
(***************************************************************************)
\* line 86: the tokens reserved for the prompt
ReservedTokens == 500

\* the characters of the texts
Alphabet == {"a", ".", " "}

\* the index of the first '. ' in s, 0 when there is none
FindSep(s) ==
    IF \E i \in 1..(Len(s) - 1) : s[i] = "." /\ s[i + 1] = " "
    THEN CHOOSE i \in 1..(Len(s) - 1) :
             /\ s[i] = "." /\ s[i + 1] = " "
             /\ \A j \in 1..(i - 1) : ~(s[j] = "." /\ s[j + 1] = " ")
    ELSE 0

RECURSIVE Split(_)
\* text.split('. ')
Split(s) ==
    LET i == FindSep(s)
    IN IF i = 0 THEN <<s>>
       ELSE <<SubSeq(s, 1, i - 1)>> \o Split(SubSeq(s, i + 2, Len(s)))

RECURSIVE Join(_, _)
\* sep.join(parts)
Join(parts, sep) ==
    IF parts = <<>> THEN <<>>
    ELSE IF Len(parts) = 1 THEN parts[1]
    ELSE parts[1] \o sep \o Join(Tail(parts), sep)

\* self.encoder.encode(sentence): the tokens of a sentence, one per character
Encode(s) == [i \in 1..Len(s) |-> <<s[i]>>]

\* lines 96-97: "Add period back if needed"
WithPeriod(sentence, all) ==
    IF sentence # all[Len(all)] THEN sentence \o <<".">> ELSE sentence

\* the test with the sentence's own tokens left out of the sum
ExceedsLimitAlready(tokens, sentence_token_count, effective_max_tokens) ==
    tokens > effective_max_tokens

\* the test with the chunk's running total left out of the sum
ExceedsLimitSentenceOnly(tokens, sentence_token_count, effective_max_tokens) ==
    sentence_token_count > effective_max_tokens

\* the test sealing already when the sentence just fills the chunk
ExceedsLimitAtLimit(tokens, sentence_token_count, effective_max_tokens) ==
    tokens + sentence_token_count >= effective_max_tokens

\* line 103
ExceedsLimit(tokens, sentence_token_count, effective_max_tokens) ==
    tokens + sentence_token_count > effective_max_tokens

ChunkInit ==
    /\ text \in SeqsUpTo(Alphabet, MaxTextLen)
    /\ max_tokens \in (ReservedTokens + 1)..(ReservedTokens + MaxBudget)
    /\ sentences = <<>> /\ sent_i = 0
    /\ current_chunk_sentences = <<>> /\ current_chunk_tokens = 0
    /\ chunks = <<>> /\ chunk_parts = <<>>
    /\ cpc = "call"
    /\ ListIdle /\ MergeIdle /\ AnalyzeIdle /\ ChatIdle /\ SummaryIdle /\ RiskIdle

\* lines 86-92
ChunkTextEnter ==
    /\ cpc = "call"
    /\ sentences' = Split(text)
    /\ sent_i' = 1
    /\ chunks' = <<>> /\ chunk_parts' = <<>>
    /\ current_chunk_sentences' = <<>>
    /\ current_chunk_tokens' = 0
    /\ cpc' = "loop"
    /\ UNCHANGED <<text, max_tokens, listVars, mergeVars, analyzeVars, chatVars, riskVars>>

\* lines 94-112: one sentence
ChunkTextLoop ==
    /\ cpc = "loop"
    /\ sent_i <= Len(sentences)
    /\ LET effective_max_tokens == max_tokens - ReservedTokens
           sentence == WithPeriod(sentences[sent_i], sentences)
           sentence_token_count == Len(Encode(sentence))
           seal == /\ ExceedsLimit(current_chunk_tokens, sentence_token_count,
                                   effective_max_tokens)
                   /\ current_chunk_sentences # <<>>
       IN /\ chunks' = IF seal THEN Append(chunks, Join(current_chunk_sentences, <<" ">>))
                       ELSE chunks
          /\ chunk_parts' = IF seal THEN Append(chunk_parts, current_chunk_sentences)
                            ELSE chunk_parts
          /\ current_chunk_sentences' =
                 IF seal THEN <<sentence>> ELSE Append(current_chunk_sentences, sentence)
          /\ current_chunk_tokens' =
                 IF seal THEN sentence_token_count
                 ELSE current_chunk_tokens + sentence_token_count
    /\ sent_i' = sent_i + 1
    /\ UNCHANGED <<text, max_tokens, sentences, cpc, listVars, mergeVars, analyzeVars, chatVars, riskVars>>

\* lines 114-119
ChunkTextReturn ==
    /\ cpc = "loop"
    /\ sent_i > Len(sentences)
    /\ chunks' = IF current_chunk_sentences # <<>>
                 THEN Append(chunks, Join(current_chunk_sentences, <<" ">>))
                 ELSE chunks
    /\ chunk_parts' = IF current_chunk_sentences # <<>>
                      THEN Append(chunk_parts, current_chunk_sentences)
                      ELSE chunk_parts
    /\ cpc' = "returned"
    /\ UNCHANGED <<text, max_tokens, sentences, sent_i, current_chunk_sentences,
                   current_chunk_tokens, listVars, mergeVars, analyzeVars, chatVars, riskVars>>

ChunkNext ==
    \/ ChunkTextEnter
    \/ ChunkTextLoop
    \/ ChunkTextReturn

ChunkSpec == ChunkInit /\ [][ChunkNext]_vars

(***************************************************************************)
(* analyze_contract: the chunker, one gateway call per chunk, the merger   *)
(* and the typed result.  The chunker and the merger are the actions       *)
(* above, run as the calls of lines 321, 330 and 331.                      *)
(***************************************************************************)
\* what requests.post / raise_for_status / response.json() can give: an
\* envelope, or an exception (a network error or a non-success status)
GatewayOutcomes ==
    {Envelope(JsonText(PartialA)), Envelope(JsonText(PartialB)), EnvelopeNotJson, Raised}

\* the call fails and the loop goes on
CallFailedNever(response) == FALSE

\* _analyze_chunk lines 159-164: the exception is logged and raised again
CallFailed(response) == response = Raised

\* the envelope put in front of the ones collected
CollectInFront(collected, analysis) == <<analysis>> \o collected

\* line 327: analyses.append(analysis)
Collect(collected, analysis) == Append(collected, analysis)

\* the text is any text of the model; max_tokens is _chunk_text's default of
\* line 82, in the scale of the model's texts
AnalyzeInit ==
    /\ text \in SeqsUpTo(Alphabet, MaxTextLen)
    /\ max_tokens \in (ReservedTokens + 1)..(ReservedTokens + MaxBudget)
    /\ sentences = <<>> /\ sent_i = 0
    /\ current_chunk_sentences = <<>> /\ current_chunk_tokens = 0
    /\ chunks = <<>> /\ chunk_parts = <<>>
    /\ cpc = "call"
    /\ gateway_calls = <<>> /\ a_i = 0 /\ analysis_result = Null
    /\ apc = "chunking"
    /\ ListIdle /\ MergeIdle /\ ChatIdle /\ SummaryIdle /\ RiskIdle

\* lines 321-325: _chunk_text has returned, the loop starts
AnalyzeContractEnter ==
    /\ apc = "chunking"
    /\ cpc = "returned"
    /\ analyses' = <<>>
    /\ a_i' = 1
    /\ apc' = "loop"
    /\ UNCHANGED <<gateway_calls, analysis_result, merged, chunk_i, warnings,
                   structured, mpc, listVars, chunkVars, chatVars, riskVars>>

\* lines 325-328 with _analyze_chunk lines 125-164: one chunk, one call
AnalyzeChunk ==
    /\ apc = "loop"
    /\ a_i <= Len(chunks)
    /\ \E response \in GatewayOutcomes :
          /\ gateway_calls' = Append(gateway_calls,
                                     [content |-> chunks[a_i], part |-> a_i,
                                      total_chunks |-> Len(chunks),
                                      response |-> response])
          /\ IF CallFailed(response)
             THEN /\ apc' = "raised"
                  /\ analysis_result' = Raised
                  /\ UNCHANGED <<analyses, a_i>>
             ELSE /\ analyses' = Collect(analyses, response)
                  /\ a_i' = a_i + 1
                  /\ UNCHANGED <<apc, analysis_result>>
    /\ UNCHANGED <<merged, chunk_i, warnings, structured, mpc, listVars, chunkVars, chatVars, riskVars>>

\* line 330: the call of _merge_analyses
AnalyzeMerge ==
    /\ apc = "loop"
    /\ a_i > Len(chunks)
    /\ mpc' = "call"
    /\ apc' = "merging"
    /\ UNCHANGED <<gateway_calls, a_i, analysis_result, analyses, merged, chunk_i,
                   warnings, structured, listVars, chunkVars, chatVars, riskVars>>

\* lines 330-337: the typed result with the original text, or the exception
\* of _merge_analyses or _create_structured_analysis
AnalyzeContractReturn ==
    /\ apc = "merging"
    /\ mpc \in {"raised", "promote_raised", "promoted"}
    /\ analysis_result' = IF mpc = "promoted"
                          THEN [analysis |-> structured, original_text |-> text]
                          ELSE Raised
    /\ apc' = IF mpc = "promoted" THEN "returned" ELSE "raised"
    /\ UNCHANGED <<gateway_calls, a_i, listVars, mergeVars, chunkVars, chatVars, riskVars>>

AnalyzeNext ==
    \/ ChunkTextEnter
    \/ ChunkTextLoop
    \/ ChunkTextReturn
    \/ AnalyzeContractEnter
    \/ AnalyzeChunk
    \/ AnalyzeMerge
    \/ MergeAnalysesEnter
    \/ MergeAnalysesLoop
    \/ MergeAnalysesReturn
    \/ CreateStructuredAnalysis
    \/ AnalyzeContractReturn

AnalyzeSpec == AnalyzeInit /\ [][AnalyzeNext]_vars

(***************************************************************************)
(* ContractChat (contract_chat.py) behind the /contractIQ endpoint         *)
(* (app.py, chat_with_contract).  A dict is a function from its keys; a    *)
(* history is a Python list object, held in lists and referred to by its   *)
(* index, so that chat_histories.get(id) and a turn's chat_history can be  *)
(* the same object, as they are in the code (0 is a private empty list).   *)
(* The fixed wording of a prompt is one element of the str.                *)
(***************************************************************************)
ContractIds == {"c1", "c2"}
Threads == {1, 2}

TextA == <<"N","D","A">>
TextB == <<"L","e","a","s","e">>
EmptyText == <<>>

\* extract_text_from_pdf of the contract's file (app.py line 353)
PdfText(id) == IF id = "c1" THEN TextA ELSE TextB

\* the contract_text a caller of get_response may pass
ArgTexts == {EmptyText, TextA, TextB}

Question == <<"W","h","o","?">>
Messages == {Question}

\* the text of a reply of the model
ReplyA == <<"Y","e","s">>
Replies == {ReplyA}

\* line 105: chat_history[-3:]
ReplayWindow == 3

\* lines 75-83
SystemPrompt == <<"You are an expert contract analyst assistant. ...">>

\* line 96
SeedContent(source_text) ==
    <<"Here is the contract to analyze:\n\n">> \o source_text
        \o <<"\n\nPlease acknowledge that you've received the contract.">>

\* line 100
AckContent ==
    <<"I have received the contract and am ready to help analyze it. What would you like to know about the contract?">>

\* line 115
ContextContent(source_text) ==
    <<"Here is the contract to analyze:\n\n">> \o source_text
        \o <<"\n\nPlease analyze this contract.">>

\* lines 94-101
SeedMessages(source_text) ==
    <<[role |-> "user", content |-> SeedContent(source_text)],
      [role |-> "assistant", content |-> AckContent]>>

\* the whole history
LastTurnsAll(history) == history

\* line 105: chat_history[-3:]
LastTurns(history) ==
    SubSeq(history,
           IF Len(history) > ReplayWindow THEN Len(history) - ReplayWindow + 1 ELSE 1,
           Len(history))

\* lines 103-109
ReplayMessages(history) ==
    [i \in 1..Len(LastTurns(history)) |->
        [role |-> LastTurns(history)[i].role, content |-> LastTurns(history)[i].content]]

\* no context message, whatever the first role
WithContextNever(messages, stored_text) == messages

\* lines 111-116
WithContext(messages, stored_text) ==
    IF messages # <<>> /\ messages[1].role # "user"
    THEN <<[role |-> "user", content |-> ContextContent(stored_text)]>> \o messages
    ELSE messages

\* the user's message put first
AddUserMessageFirst(messages, user_message) ==
    <<[role |-> "user", content |-> user_message]>> \o messages

\* lines 118-121
AddUserMessage(messages, user_message) ==
    Append(messages, [role |-> "user", content |-> user_message])

\* lines 89-121: has_context is the test "contract_id in
\* self.contract_contexts" of line 92, stored_text the session's text
BuildMessages(user_message, source_text, history, has_context, stored_text) ==
    LET seeded == IF history = <<>> \/ ~has_context
                  THEN SeedMessages(source_text) ELSE <<>>
        replayed == seeded \o ReplayMessages(history)
    IN AddUserMessage(WithContext(replayed, stored_text), user_message)

\* what the messages endpoint can answer: a reply, a non-success status, a
\* body without 'content', a content item without 'text', an empty text
ReplyBody(reply) == [content |-> <<[type |-> "text", text |-> reply]>>]
ChatResponses ==
    {[status |-> 200, body |-> ReplyBody(r)] : r \in Replies}
        \cup {[status |-> 500, body |-> [type |-> "error"]],
              [status |-> 200, body |-> [type |-> "error"]],
              [status |-> 200, body |-> [content |-> <<[type |-> "text"]>>]],
              [status |-> 200, body |-> ReplyBody(EmptyText)]}

\* a body without text is taken as a reply all the same
ParseReplyLenient(response) ==
    IF "content" \in DOMAIN response.body /\ response.body.content # <<>>
          /\ "text" \in DOMAIN response.body.content[1]
    THEN Str(response.body.content[1].text)
    ELSE Str(EmptyText)

\* lines 146-160: the reply text (a str), or the ValueError
ParseReply(response) ==
    IF response.status # 200 THEN Raised
    ELSE IF "content" \notin DOMAIN response.body THEN Raised
    ELSE IF response.body.content = <<>> THEN Raised
    ELSE IF "text" \notin DOMAIN response.body.content[1] THEN Raised
    ELSE IF response.body.content[1].text = <<>> THEN Raised
    ELSE Str(response.body.content[1].text)

\* the turn recorded under the user's role
TurnRecordUser(clock, reply) ==
    [id |-> clock, role |-> "user", content |-> reply, timestamp |-> clock]

\* lines 164-169 and asdict: the clock gives the id and the timestamp
TurnRecord(clock, reply) ==
    [id |-> clock, role |-> "assistant", content |-> reply, timestamp |-> clock]

\* the list object behind a reference
Deref(ref) == IF ref = 0 THEN <<>> ELSE lists[ref]

\* chat_histories.get(id, []) (app.py line 345)
HistoryRef(id) == IF id \in DOMAIN chat_histories THEN chat_histories[id] ELSE 0

\* json.dump(self.chat_histories, f)
Dump(histories, objects) == [id \in DOMAIN histories |-> objects[histories[id]]]

\* the record replaces the list
SaveOnlyRecord(history, record) == <<record>>

\* line 173: chat_history.append(asdict(chat_message))
AppendRecord(history, record) == Append(history, record)

\* the list stored under every contract id
SaveChatHistoryAll(histories, id, ref) ==
    [k \in DOMAIN histories \cup {id} |-> ref]

\* _save_chat_history line 47: self.chat_histories[contract_id] = chat_history
SaveChatHistory(histories, id, ref) == (id :> ref) @@ histories

\* the session set on every call
WithSessionOverwrite(contexts, id, source_text) ==
    (id :> [contract_text |-> source_text, system_prompt |-> SystemPrompt])
        @@ contexts

\* lines 70-84: the session is created when the contract id has none
WithSession(contexts, id, source_text) ==
    IF id \notin DOMAIN contexts
    THEN (id :> [contract_text |-> source_text, system_prompt |-> SystemPrompt])
             @@ contexts
    ELSE contexts

\* a history left on disk by earlier runs of the process: k assistant turns
StoredReply(j) == <<"r">> \o DecStr(j)
StoredHistory(k) == [j \in 1..k |-> TurnRecord(j, StoredReply(j))]

\* the turns in flight
InFlight == Cardinality({t \in Threads : chat_pc[t] # "idle"})
\* the last id the clock may give
LastId == MaxStored + MaxTurns

NoTurn == [t \in Threads |-> Null]
NoName == [t \in Threads |-> "none"]
NoStr == [t \in Threads |-> EmptyText]

\* ContractChat.__init__ and _init_storage (lines 19-42): no session, the
\* histories of chat_histories.json
ChatInit ==
    /\ \E k1 \in 0..MaxStored, k2 \in 0..MaxStored :
          /\ lists = (IF k1 > 0 THEN <<StoredHistory(k1)>> ELSE <<>>)
                        \o (IF k2 > 0 THEN <<StoredHistory(k2)>> ELSE <<>>)
          /\ chat_histories =
                 [id \in {i \in ContractIds : IF i = "c1" THEN k1 > 0 ELSE k2 > 0} |->
                     IF id = "c1" THEN 1 ELSE IF k1 > 0 THEN 2 ELSE 1]
    /\ history_file = Dump(chat_histories, lists)
    /\ contract_contexts = <<>>
    /\ now = MaxStored + 1
    /\ chat_messages = <<>>
    /\ chat_pc = [t \in Threads |-> "idle"]
    /\ caller = NoName /\ contract_id = NoName /\ message = NoStr
    /\ contract_text = NoStr /\ chat_history = [t \in Threads |-> 0]
    /\ request_data = NoTurn /\ chat_response = NoTurn /\ chat_message = NoTurn
    /\ ListIdle /\ MergeIdle /\ ChunkIdle /\ AnalyzeIdle /\ SummaryIdle /\ RiskIdle

\* app.py lines 285-376: the stored history is read, the text is extracted
\* on a first message or a missing session and the session stored, else the
\* session's text is taken; a failed extraction answers 500
ChatWithContract(t) ==
    /\ chat_pc[t] = "idle"
    /\ now + InFlight <= LastId
    /\ \E id \in ContractIds, user_message \in Messages :
       \E extracted \in {Str(PdfText(id)), Raised} :
          LET ref == HistoryRef(id)
              load == Deref(ref) = <<>> \/ id \notin DOMAIN contract_contexts
          IN /\ caller' = [caller EXCEPT ![t] = "endpoint"]
             /\ contract_id' = [contract_id EXCEPT ![t] = id]
             /\ message' = [message EXCEPT ![t] = user_message]
             /\ chat_history' = [chat_history EXCEPT ![t] = ref]
             /\ IF load /\ extracted = Raised
                THEN /\ chat_pc' = [chat_pc EXCEPT ![t] = "failed"]
                     /\ UNCHANGED <<contract_text, contract_contexts>>
                ELSE /\ chat_pc' = [chat_pc EXCEPT ![t] = "get_response"]
                     /\ contract_text' =
                            [contract_text EXCEPT ![t] =
                                IF load THEN extracted.v
                                ELSE contract_contexts[id].contract_text]
                     /\ contract_contexts' =
                            IF load /\ id \notin DOMAIN contract_contexts
                            THEN (id :> [contract_text |-> extracted.v,
                                         system_prompt |-> SystemPrompt])
                                     @@ contract_contexts
                            ELSE contract_contexts
    /\ UNCHANGED <<chat_histories, lists, history_file, now, chat_messages,
                   request_data, chat_response, chat_message,
                   listVars, mergeVars, chunkVars, analyzeVars, riskVars>>

\* get_response called by another caller than the endpoint: any
\* contract_text, the stored history or none
GetResponseCall(t) ==
    /\ chat_pc[t] = "idle"
    /\ now + InFlight <= LastId
    /\ \E id \in ContractIds, user_message \in Messages, source_text \in ArgTexts :
       \E ref \in {0, HistoryRef(id)} :
          /\ caller' = [caller EXCEPT ![t] = "direct"]
          /\ contract_id' = [contract_id EXCEPT ![t] = id]
          /\ message' = [message EXCEPT ![t] = user_message]
          /\ contract_text' = [contract_text EXCEPT ![t] = source_text]
          /\ chat_history' = [chat_history EXCEPT ![t] = ref]
    /\ chat_pc' = [chat_pc EXCEPT ![t] = "get_response"]
    /\ UNCHANGED <<sessionVars, request_data, chat_response, chat_message,
                   listVars, mergeVars, chunkVars, analyzeVars, riskVars>>

\* contract_chat.py lines 63-142: the session is created when missing, the
\* messages are built and the request is sent
GetResponseBuild(t) ==
    /\ chat_pc[t] = "get_response"
    /\ LET id == contract_id[t]
           contexts == WithSession(contract_contexts, id, contract_text[t])
       IN /\ contract_contexts' = contexts
          /\ request_data' =
                 [request_data EXCEPT ![t] =
                     [messages |-> BuildMessages(message[t], contract_text[t],
                                                 Deref(chat_history[t]),
                                                 id \in DOMAIN contexts,
                                                 contexts[id].contract_text),
                      system |-> contexts[id].system_prompt]]
    /\ chat_pc' = [chat_pc EXCEPT ![t] = "awaiting"]
    /\ UNCHANGED <<chat_histories, lists, history_file, now, chat_messages,
                   caller, contract_id, message, contract_text, chat_history,
                   chat_response, chat_message, listVars, mergeVars, chunkVars, analyzeVars, riskVars>>

\* lines 143-185 with _save_chat_history (lines 44-53): the response is
\* parsed; a reply is made a turn record, appended to chat_history (a new
\* list when it is empty, line 172), stored under the id and dumped to the
\* file; anything else raises ValueError
GetResponseReply(t) ==
    /\ chat_pc[t] = "awaiting"
    /\ \E answer \in ChatResponses :
          LET assistant_message == ParseReply(answer)
              id == contract_id[t]
              record == TurnRecord(now, assistant_message.v)
              fresh == Deref(chat_history[t]) = <<>>
              ref == IF fresh THEN Len(lists) + 1 ELSE chat_history[t]
              objects == IF fresh THEN Append(lists, AppendRecord(<<>>, record))
                         ELSE [lists EXCEPT ![ref] = AppendRecord(@, record)]
              histories == SaveChatHistory(chat_histories, id, ref)
          IN /\ chat_response' = [chat_response EXCEPT ![t] = answer]
             /\ IF assistant_message = Raised
                THEN /\ chat_message' = [chat_message EXCEPT ![t] = Raised]
                     /\ chat_pc' = [chat_pc EXCEPT ![t] = "raised"]
                     /\ UNCHANGED <<chat_histories, lists, history_file, now,
                                    chat_history>>
                ELSE /\ chat_message' = [chat_message EXCEPT ![t] = record]
                     /\ chat_pc' = [chat_pc EXCEPT ![t] = "returned"]
                     /\ chat_history' = [chat_history EXCEPT ![t] = ref]
                     /\ lists' = objects
                     /\ chat_histories' = histories
                     /\ history_file' = Dump(histories, objects)
                     /\ now' = now + 1
    /\ UNCHANGED <<contract_contexts, chat_messages, caller, contract_id, message,
                   contract_text, request_data,
                   listVars, mergeVars, chunkVars, analyzeVars, riskVars>>

\* app.py lines 386-417: the reply is inserted into the chat_messages table
\* (a failed insert is logged only) and answered, an error is answered 500;
\* the turn is over
ChatRespond(t) ==
    /\ chat_pc[t] \in {"returned", "raised", "failed"}
    /\ \E inserted \in BOOLEAN :
          chat_messages' =
              IF caller[t] = "endpoint" /\ chat_pc[t] = "returned" /\ inserted
              THEN Append(chat_messages,
                          [contract_id |-> contract_id[t],
                           role |-> chat_message[t].role,
                           content |-> chat_message[t].content])
              ELSE chat_messages
    /\ chat_pc' = [chat_pc EXCEPT ![t] = "idle"]
    /\ caller' = [caller EXCEPT ![t] = "none"]
    /\ contract_id' = [contract_id EXCEPT ![t] = "none"]
    /\ message' = [message EXCEPT ![t] = EmptyText]
    /\ contract_text' = [contract_text EXCEPT ![t] = EmptyText]
    /\ chat_history' = [chat_history EXCEPT ![t] = 0]
    /\ request_data' = [request_data EXCEPT ![t] = Null]
    /\ chat_response' = [chat_response EXCEPT ![t] = Null]
    /\ chat_message' = [chat_message EXCEPT ![t] = Null]
    /\ UNCHANGED <<contract_contexts, chat_histories, lists, history_file, now,
                   listVars, mergeVars, chunkVars, analyzeVars, riskVars>>

\* one request at a time
ChatNext ==
    \/ ChatWithContract(1)
    \/ GetResponseCall(1)
    \/ GetResponseBuild(1)
    \/ GetResponseReply(1)
    \/ ChatRespond(1)

ChatSpec == ChatInit /\ [][ChatNext]_vars

\* app.run (app.py line 493) serves each request on a thread of its own:
\* the turns of two requests interleave at every step
ChatRaceNext ==
    \E t \in Threads :
        \/ ChatWithContract(t)
        \/ GetResponseBuild(t)
        \/ GetResponseReply(t)
        \/ ChatRespond(t)

ChatRaceSpec == ChatInit /\ [][ChatRaceNext]_vars

(***************************************************************************)
(* get_response called with a history of the caller's own: a list object   *)
(* that no contract id refers to, holding turns of any role.  The process  *)
(* starts without chat_histories.json.                                     *)
(***************************************************************************)
Roles == {"user", "assistant", "system"}

\* the caller's list is at most one turn longer than the replayed window, so
\* that the window can open after the first turn of the list
MaxSupplied == ReplayWindow + 1

\* a record of the caller's list: msg['role'] and msg['content'] are read
SuppliedRecord(j, role) ==
    [id |-> 0 - j, role |-> role, content |-> StoredReply(j), timestamp |-> 0 - j]

SuppliedHistories ==
    UNION {{[j \in 1..n |-> SuppliedRecord(j, roles[j])] : roles \in [1..n -> Roles]}
               : n \in 1..MaxSupplied}

\* the list objects no contract id refers to
CallerRefs ==
    {ref \in 1..Len(lists) : \A id \in DOMAIN chat_histories : chat_histories[id] # ref}

ChatCallerInit ==
    /\ \E history \in SuppliedHistories : lists = <<history>>
    /\ chat_histories = <<>>
    /\ history_file = <<>>
    /\ contract_contexts = <<>>
    /\ now = MaxStored + 1
    /\ chat_messages = <<>>
    /\ chat_pc = [t \in Threads |-> "idle"]
    /\ caller = NoName /\ contract_id = NoName /\ message = NoStr
    /\ contract_text = NoStr /\ chat_history = [t \in Threads |-> 0]
    /\ request_data = NoTurn /\ chat_response = NoTurn /\ chat_message = NoTurn
    /\ ListIdle /\ MergeIdle /\ ChunkIdle /\ AnalyzeIdle /\ SummaryIdle /\ RiskIdle

\* get_response (line 55) called with any contract_text and a list of the
\* caller's
GetResponseCallWith(t) ==
    /\ chat_pc[t] = "idle"
    /\ now + InFlight <= LastId
    /\ \E id \in ContractIds, user_message \in Messages, source_text \in ArgTexts :
       \E ref \in CallerRefs :
          /\ caller' = [caller EXCEPT ![t] = "direct"]
          /\ contract_id' = [contract_id EXCEPT ![t] = id]
          /\ message' = [message EXCEPT ![t] = user_message]
          /\ contract_text' = [contract_text EXCEPT ![t] = source_text]
          /\ chat_history' = [chat_history EXCEPT ![t] = ref]
    /\ chat_pc' = [chat_pc EXCEPT ![t] = "get_response"]
    /\ UNCHANGED <<sessionVars, request_data, chat_response, chat_message,
                   listVars, mergeVars, chunkVars, analyzeVars, riskVars>>

\* one request at a time, of the endpoint or of the caller with its list
ChatCallerNext ==
    \/ ChatWithContract(1)
    \/ GetResponseCallWith(1)
    \/ GetResponseBuild(1)
    \/ GetResponseReply(1)
    \/ ChatRespond(1)

ChatCallerSpec == ChatCallerInit /\ [][ChatCallerNext]_vars

(***************************************************************************)
(* ContractRiskAssessor (risk_assessment.py).  The parsed response is a    *)
(* JSON value; risksByCategory is a Python dict built by insertion, so it  *)
(* is the sequence of its entries in insertion order.                      *)
(***************************************************************************)
OrderedDict(entries) == [t |-> "odict", v |-> entries]

S_high == <<"h","i","g","h">>
S_medium == <<"m","e","d","i","u","m">>
S_low == <<"l","o","w">>
S_critical == <<"c","r","i","t","i","c","a","l">>
S_covenants == <<"c","o","v","e","n","a","n","t","s">>
S_ip == <<"i","p">>

\* line 135: the parsed response is a dict with a 'risks' key
ValidStructure(data) == data.t = "dict" /\ "risks" \in DOMAIN data.v

\* len(value) is defined: a list, a str or a dict
Sized(value) == value.t \in {"list", "str", "dict"}

RECURSIVE KeySeq(_)
\* the keys of a dict, as a for loop draws them
KeySeq(keys) ==
    IF keys = {} THEN <<>>
    ELSE LET key == CHOOSE x \in keys : TRUE
         IN <<Str(<<key>>)>> \o KeySeq(keys \ {key})

\* what a for loop or a comprehension draws from a list, a str or a dict
Iterate(value) ==
    CASE value.t = "list" -> value.v
      [] value.t = "str" -> [i \in 1..Len(value.v) |-> Str(<<value.v[i]>>)]
      [] value.t = "dict" -> KeySeq(DOMAIN value.v)

\* a dict key must be hashable
Hashable(value) == value.t \notin {"list", "dict"}

CountSeverityAny(items, severity) == Len(items)

\* lines 143-145: len([r for r in risks if r['severity'] == severity])
CountSeverity(items, severity) ==
    Cardinality({i \in DOMAIN items : Subscript(items[i], "severity") = Str(severity)})

\* the position of key among the entries, 0 when it is not a key
EntryIndex(entries, key) ==
    IF \E i \in DOMAIN entries : entries[i].key = key
    THEN CHOOSE i \in DOMAIN entries : entries[i].key = key
    ELSE 0

GroupRiskInFront(entries, category, risk) ==
    LET at == EntryIndex(entries, category)
    IN IF at = 0 THEN <<[key |-> category, value |-> <<risk>>]>> \o entries
       ELSE [entries EXCEPT ![at].value = <<risk>> \o @]

\* lines 152-154: a new category gets an empty list after the categories
\* already there, and the risk is appended to its category's list
GroupRisk(entries, category, risk) ==
    LET at == EntryIndex(entries, category)
    IN IF at = 0 THEN Append(entries, [key |-> category, value |-> <<risk>>])
       ELSE [entries EXCEPT ![at].value = Append(@, risk)]

RECURSIVE GroupFrom(_, _, _)
\* lines 150-154 from the i-th risk on
GroupFrom(items, i, grouped) ==
    IF i > Len(items) THEN grouped
    ELSE LET category == Subscript(items[i], "category")
         IN IF category = Raised THEN Raised            \* KeyError, TypeError
            ELSE IF ~Hashable(category) THEN Raised     \* TypeError
            ELSE GroupFrom(items, i + 1,
                           OrderedDict(GroupRisk(grouped.v, category, items[i])))

\* lines 140-154: the summary of the value under 'risks'
Summary(risk_value) ==
    IF ~Sized(risk_value) THEN Raised                   \* len(): TypeError
    ELSE LET items == Iterate(risk_value)
         IN IF \E i \in DOMAIN items : Subscript(items[i], "severity") = Raised
            THEN Raised                                 \* KeyError, TypeError
            ELSE LET grouped == GroupFrom(items, 1, OrderedDict(<<>>))
                 IN IF grouped = Raised THEN Raised
                    ELSE Dict([totalRisks |-> Num(Len(items)),
                               highPriorityCount |-> Num(CountSeverity(items, S_high)),
                               mediumPriorityCount |-> Num(CountSeverity(items, S_medium)),
                               lowPriorityCount |-> Num(CountSeverity(items, S_low)),
                               risksByCategory |-> grouped])

\* the risks the gateway reports
Risk(title, severity, category) ==
    Dict([title |-> Str(<<title>>), severity |-> severity, category |-> category])
RiskA == Risk("A", Str(S_high), Str(S_covenants))
RiskB == Risk("B", Str(S_medium), Str(S_ip))
RiskC == Risk("C", Str(S_low), Str(S_covenants))
\* a severity outside high, medium, low
RiskD == Risk("D", Str(S_critical), Str(S_ip))
Risks == {RiskA, RiskB, RiskC, RiskD}
\* a category that is not a str, risks without a severity or a category, a
\* category that cannot be a key
RiskNumbered == Risk("N", Str(S_low), Num(5))
RiskNoSeverity == Dict([title |-> Str(<<"S">>), category |-> Str(S_ip)])
RiskNoCategory == Dict([title |-> Str(<<"K">>), severity |-> Str(S_high)])
RiskListCategory == Risk("L", Str(S_high), List(<<Str(S_ip)>>))

RiskDoc(risk_value) == Dict([risks |-> risk_value])
\* the documents whose 'risks' value is a list of risks
ListDocs == {RiskDoc(List(l)) : l \in SeqsUpTo(Risks, MaxRisks)}
\* the other documents: no 'risks' key, not a dict, 'risks' not a list, and
\* lists with an item that is not a well-formed risk
OtherDocs ==
    {EmptyDict, Dict([findings |-> List(<<RiskA>>)]), Str(S_high), List(<<RiskA>>),
     RiskDoc(EmptyStr), RiskDoc(Str(S_ip)), RiskDoc(EmptyDict),
     RiskDoc(Dict([high |-> RiskA])), RiskDoc(Null), RiskDoc(Num(3)),
     RiskDoc(List(<<RiskA, RiskNumbered>>)), RiskDoc(List(<<RiskA, RiskNoSeverity>>)),
     RiskDoc(List(<<RiskNoCategory>>)), RiskDoc(List(<<RiskListCategory, RiskA>>)),
     RiskDoc(List(<<Str(S_high)>>))}
RiskDocs == ListDocs \cup OtherDocs

\* lines 134-154 applied to one parsed response
SummaryInit ==
    /\ s_data \in RiskDocs
    /\ s_risks = Null /\ s_summary = Null /\ spc = "call"
    /\ ListIdle /\ MergeIdle /\ ChunkIdle /\ AnalyzeIdle /\ ChatIdle /\ RiskIdle

Summarize ==
    /\ spc = "call"
    /\ IF ~ValidStructure(s_data)
       THEN /\ spc' = "raised"                          \* ValueError, line 137
            /\ UNCHANGED <<s_risks, s_summary>>
       ELSE /\ s_risks' = s_data.v.risks
            /\ s_summary' = Summary(s_data.v.risks)
            /\ spc' = IF Summary(s_data.v.risks) = Raised THEN "raised" ELSE "returned"
    /\ UNCHANGED <<s_data, storeVars, requestVars, listVars, mergeVars, chunkVars,
                   analyzeVars, chatVars>>

SummaryNext == Summarize

SummarySpec == SummaryInit /\ [][SummaryNext]_vars

(***************************************************************************)
(* assess_risks and get_cached_assessment behind the /riskassess endpoint  *)
(* (app.py, assess_contract_risks), one request at a time.  A file of the  *)
(* risk_assessments directory is named by the str() of the id it was saved *)
(* under.                                                                  *)
(***************************************************************************)
S_unknown == <<"unknown">>

\* the analysis column of a row: asdict of what analyze_contract returned.
\* Its metadata is what the chunk calls reported (app.py creates the
\* contract id after the analysis): no id, or the id of the contract
AnalysisOf(metadata) == Dict([metadata |-> metadata])
AnalysesOf(id) == {AnalysisOf(EmptyDict), AnalysisOf(Dict([id |-> Str(<<id>>)]))}

\* the responses assess_risks parses apart from the summary's cases
GatewayDocs ==
    {RiskDoc(List(<<RiskA>>)), RiskDoc(List(<<RiskD, RiskNumbered>>)),
     EmptyDict, Str(S_high), RiskDoc(EmptyStr), RiskDoc(Str(S_ip)), RiskDoc(Null)}
RiskResponses ==
    {[status |-> 500]}
        \cup {[status |-> 200, body |-> Envelope(JsonText(doc))] : doc \in GatewayDocs}
        \cup {[status |-> 200, body |-> EnvelopeNotJson],
              [status |-> 200, body |-> EnvelopeNoContent]}

RequestsTwice(analysis) ==
    <<[analysis |-> analysis, max_tokens |-> 4000],
      [analysis |-> analysis, max_tokens |-> 4000]>>

\* lines 72-117: the requests one invocation posts, the analysis embedded in
\* the prompt
Requests(analysis) == <<[analysis |-> analysis, max_tokens |-> 4000]>>

\* lines 118-132: the parsed JSON of the response, or the exception
AssessmentData(response) ==
    IF response.status # 200 THEN Raised
    ELSE IF "content" \notin DOMAIN response.body THEN Raised       \* KeyError
    ELSE IF response.body.content = <<>> THEN Raised                \* IndexError
    ELSE IF ~response.body.content[1].text.wellformed THEN Raised   \* JSONDecodeError
    ELSE response.body.content[1].text.value

\* line 163: contract_analysis.get('metadata', {}).get('id', 'unknown')
ContractIdOf(analysis) ==
    LET metadata == DictGet(analysis, "metadata", EmptyDict)
    IN IF metadata = Raised \/ metadata.t # "dict" THEN Raised      \* AttributeError
       ELSE DictGet(metadata, "id", Str(S_unknown))

\* f'{contract_id}_risks.json', named by its first part
FileName(id_value) == IF id_value.t = "str" THEN id_value.v ELSE PyStr(id_value)

\* json.dump writes a key that is not a str as a str
JsonKey(key) ==
    CASE key.t = "str" -> key
      [] key.t = "num" -> Str(DecStr(key.v))
      [] key.t = "null" -> Str(<<"null">>)
      [] key.t = "bool" -> Str(IF key.v THEN <<"true">> ELSE <<"false">>)

RECURSIVE LoadEntries(_, _)
\* json.load of the dumped entries: a key written twice keeps its first
\* position and its last value
LoadEntries(entries, loaded) ==
    IF entries = <<>> THEN loaded
    ELSE LET key == JsonKey(Head(entries).key)
             at == EntryIndex(loaded, key)
         IN LoadEntries(Tail(entries),
                        IF at = 0
                        THEN Append(loaded, [key |-> key, value |-> Head(entries).value])
                        ELSE [loaded EXCEPT ![at].value = Head(entries).value])

\* asdict(assessment) written as JSON and read back
StoredForm(result) ==
    [risks |-> result.risks,
     summary |-> Dict([result.summary.v EXCEPT
                          !.risksByCategory =
                              OrderedDict(LoadEntries(@.v, <<>>))]),
     timestamp |-> result.timestamp]

\* lines 118-166 without the save: the result, or the exception
Assessment(response, analysis, clock) ==
    LET data == AssessmentData(response)
    IN IF data = Raised THEN Raised
       ELSE IF ~ValidStructure(data) THEN Raised                    \* ValueError
       ELSE IF Summary(data.v.risks) = Raised THEN Raised
       ELSE IF ContractIdOf(analysis) = Raised THEN Raised
       ELSE [risks |-> data.v.risks, summary |-> Summary(data.v.risks),
             timestamp |-> clock]

\* _save_assessment
SaveAssessment(files, id_value, result) ==
    (FileName(id_value) :> StoredForm(result)) @@ files

\* _load_assessment: None when the file does not exist
LoadAssessment(files, id) ==
    IF <<id>> \in DOMAIN files THEN files[<<id>>] ELSE Null

HasAssessmentNever(row) == FALSE

\* app.py line 453: the row already holds a risk assessment
HasAssessment(row) == row.risk_assessment # Null

RiskInit ==
    /\ \E present \in {{"c1"}, ContractIds} :
           \E stored \in [present -> UNION {AnalysesOf(id) : id \in ContractIds}] :
               /\ \A id \in present : stored[id] \in AnalysesOf(id)
               /\ analysis_results =
                      [id \in present |-> [analysis |-> stored[id],
                                           risk_assessment |-> Null]]
    /\ risk_files = <<>> /\ risk_calls = <<>> /\ risk_now = 1
    /\ risk_pc = "idle" /\ risk_caller = "none" /\ risk_contract_id = "none"
    /\ contract_analysis = Null /\ gateway_response = Null
    /\ assessment_result = Null /\ risk_response = Null
    /\ ListIdle /\ MergeIdle /\ ChunkIdle /\ AnalyzeIdle /\ ChatIdle /\ SummaryIdle

\* app.py lines 432-458 and risk_assessment.py lines 66-117: the row is
\* read; a missing row and a row with an assessment are answered at once,
\* otherwise assess_risks is called and posts its request
AssessContractRisks ==
    /\ risk_pc \in {"idle", "responded"}
    /\ \E id \in ContractIds :
        /\ risk_caller' = "endpoint"
        /\ risk_contract_id' = id
        /\ gateway_response' = Null
        /\ assessment_result' = Null
        /\ IF id \notin DOMAIN analysis_results
           THEN /\ risk_response' = [status |-> 404]
                /\ risk_pc' = "responded"
                /\ contract_analysis' = Null
                /\ UNCHANGED risk_calls
           ELSE IF HasAssessment(analysis_results[id])
           THEN /\ risk_response' =
                       [status |-> 200, body |-> analysis_results[id].risk_assessment]
                /\ risk_pc' = "responded"
                /\ contract_analysis' = Null
                /\ UNCHANGED risk_calls
           ELSE /\ Len(risk_calls) < MaxAssessments
                /\ contract_analysis' = analysis_results[id].analysis
                /\ risk_calls' = risk_calls \o Requests(analysis_results[id].analysis)
                /\ risk_response' = Null
                /\ risk_pc' = "awaiting"
    /\ UNCHANGED <<analysis_results, risk_files, risk_now, summaryVars,
                   listVars, mergeVars, chunkVars, analyzeVars, chatVars>>

\* risk_assessment.py lines 118-171: the response arrives; the result is
\* built and saved, or the exception is raised
AssessRisksReply ==
    /\ risk_pc = "awaiting"
    /\ \E answer \in RiskResponses :
        LET result == Assessment(answer, contract_analysis, risk_now)
        IN /\ gateway_response' = answer
           /\ assessment_result' = result
           /\ IF result = Raised
              THEN UNCHANGED <<risk_files, risk_now>>
              ELSE /\ risk_files' = SaveAssessment(risk_files,
                                                   ContractIdOf(contract_analysis), result)
                   /\ risk_now' = risk_now + 1
    /\ risk_pc' = "assessed"
    /\ UNCHANGED <<analysis_results, risk_calls, risk_caller, risk_contract_id,
                   contract_analysis, risk_response, summaryVars,
                   listVars, mergeVars, chunkVars, analyzeVars, chatVars>>

\* app.py lines 460-476: the result is written to the row and returned; an
\* exception of assess_risks or a failed update is answered with 500
RiskRespond ==
    /\ risk_pc = "assessed"
    /\ IF assessment_result = Raised
       THEN /\ risk_response' = [status |-> 500]
            /\ UNCHANGED analysis_results
       ELSE \E updated \in BOOLEAN :
               IF updated
               THEN /\ analysis_results' =
                          [analysis_results EXCEPT
                              ![risk_contract_id].risk_assessment =
                                  StoredForm(assessment_result)]
                    /\ risk_response' =
                          [status |-> 200, body |-> StoredForm(assessment_result)]
               ELSE /\ risk_response' = [status |-> 500]
                    /\ UNCHANGED analysis_results
    /\ risk_pc' = "responded"
    /\ UNCHANGED <<risk_files, risk_calls, risk_now, risk_caller, risk_contract_id,
                   contract_analysis, gateway_response, assessment_result,
                   summaryVars, listVars, mergeVars, chunkVars, analyzeVars, chatVars>>

\* get_cached_assessment(contract_id), lines 173-175
GetCachedAssessment ==
    /\ risk_pc \in {"idle", "responded"}
    /\ \E id \in ContractIds :
        /\ risk_contract_id' = id
        /\ assessment_result' = LoadAssessment(risk_files, id)
    /\ risk_caller' = "get_cached"
    /\ risk_pc' = "responded"
    /\ contract_analysis' = Null /\ gateway_response' = Null /\ risk_response' = Null
    /\ UNCHANGED <<storeVars, summaryVars, listVars, mergeVars, chunkVars,
                   analyzeVars, chatVars>>

RiskNext ==
    \/ AssessContractRisks
    \/ AssessRisksReply
    \/ RiskRespond
    \/ GetCachedAssessment

RiskSpec == RiskInit /\ [][RiskNext]_vars

(***************************************************************************)
(* All together: each behaviour runs one of them.                          *)
(***************************************************************************)
Init ==
    ListInit \/ MergeInit \/ ChunkInit \/ AnalyzeInit \/ ChatInit \/ SummaryInit
    \/ RiskInit \/ ChatCallerInit
Next ==
    \/ ListNext \/ MergeNext \/ ChunkNext \/ AnalyzeNext \/ ChatNext \/ ChatRaceNext
    \/ SummaryNext \/ RiskNext \/ ChatCallerNext
Spec == Init /\ [][Next]_vars

(***************************************************************************)
(* Properties of the merger.                                               *)
(***************************************************************************)
Absent == [t |-> "absent"]

RECURSIVE PathGet(_, _)
\* the value under a path of keys, Absent when the path leaves the records
PathGet(value, path) ==
    IF path = <<>> THEN value
    ELSE IF value.t # "dict" THEN Absent
    ELSE IF Head(path) \notin DOMAIN value.v THEN Absent
    ELSE PathGet(value.v[Head(path)], Tail(path))

Range(s) == {s[i] : i \in 1..Len(s)}
Min(S) == CHOOSE x \in S : \A y \in S : x <= y

Parsed(i) == _parse_api_response(analyses[i])
Parses(i) == Parsed(i) # Raised
\* what partial i says about a field: Absent when it does not parse or lacks it
Supplied(i, path) == IF Parses(i) THEN PathGet(Parsed(i), path) ELSE Absent
RealValue(value) == value \notin {Absent, Sentinel, Null, EmptyStr}
MergeDone == mpc \in {"returned", "promoted", "promote_raised"}

AmountField == <<"compensation", "baseCompensation", "amount">>
TypeField == <<"classification", "type">>
EmployerField == <<"metadata", "parties", "employer">>
ScalarFields == {AmountField, TypeField, EmployerField}
Sections == {"metadata", "classification", "compensation", "termination",
             "intellectualProperty", "restrictiveCovenants", "confidentiality",
             "liability"}

\* C1: scalar merge is first-seen-wins: once _merge_analyses has returned, the
\* merged value of a scalar field is the value of the first partial, in chunk
\* order, that supplies for it a value that is neither the sentinel nor null
\* nor the empty string.
C1_FirstSeenWins ==
    MergeDone =>
        \A field \in ScalarFields :
            LET real == {i \in 1..Len(analyses) : RealValue(Supplied(i, field))}
            IN real # {} =>
                   PathGet(merged, field) = Supplied(Min(real), field)

(***************************************************************************)
(* C2                                                                      *)
(***************************************************************************)
\* the comparison key of the claim: the lowercased text of a string, the
\* string representation of any other item
ComparisonKey(item) ==
    IF item.t = "str" THEN Lower(item.v) ELSE PyStr(item)

\* the index in items of the first item carrying the key
FirstIndex(items, key) ==
    CHOOSE i \in 1..Len(items) :
        /\ ComparisonKey(items[i]) = key
        /\ \A j \in 1..(i - 1) : ComparisonKey(items[j]) # key

\* C2: list merge is concatenate-then-deduplicate: _merge_lists(existing, new)
\* holds exactly one item per distinct comparison key of existing + new, that
\* item is the first one carrying the key, and the items stand in the order of
\* their first occurrence; ["NDA","nda"] merged with ["Confidentiality"] has 2
\* elements.
C2_ConcatThenDedup ==
    lpc = "returned" =>
        LET all == l_existing \o l_new
            keys == {ComparisonKey(all[i]) : i \in 1..Len(all)}
        IN /\ Len(l_merged) = Cardinality(keys)
           /\ \A n \in 1..Len(l_merged) :
                  /\ ComparisonKey(l_merged[n]) \in keys
                  /\ l_merged[n] = all[FirstIndex(all, ComparisonKey(l_merged[n]))]
           /\ \A n, m \in 1..Len(l_merged) :
                  n < m => FirstIndex(all, ComparisonKey(l_merged[n]))
                               < FirstIndex(all, ComparisonKey(l_merged[m]))
           /\ (l_existing = <<Str(S_NDA), Str(S_nda)>> /\ l_new = <<Str(S_Confidentiality)>>)
                  => Len(l_merged) = 2

\* the spec's example has been merged: a duplicate was dropped
C2_Witness ==
    /\ lpc = "returned"
    /\ l_existing = <<Str(S_NDA), Str(S_nda)>>
    /\ l_new = <<Str(S_Confidentiality)>>
    /\ l_merged = <<Str(S_NDA), Str(S_Confidentiality)>>

(***************************************************************************)
(* C3                                                                      *)
(***************************************************************************)
SentinelFields == ScalarFields \cup {<<"confidentiality">>}

RECURSIVE Holds(_, _)
\* the accumulator holds the value: a scalar as it is, a list by its items'
\* keys, a record field by field (fields carrying the sentinel say nothing)
Holds(acc, value) ==
    IF value = Sentinel THEN TRUE
    ELSE IF value.t = "dict"
    THEN /\ acc.t = "dict"
         /\ \A key \in DOMAIN value.v :
                \/ value.v[key] = Sentinel
                \/ key \in DOMAIN acc.v /\ Holds(acc.v[key], value.v[key])
    ELSE IF value.t = "list"
    THEN /\ acc.t = "list"
         /\ \A i \in 1..Len(value.v) :
                \E j \in 1..Len(acc.v) :
                    ComparisonKey(acc.v[j]) = ComparisonKey(value.v[i])
    ELSE acc = value

\* C3: sentinel gap-filling: folding a partial that carries the sentinel on a
\* field or section leaves the accumulator's value for that field unchanged;
\* and when _merge_analyses returns, for every section X for which an earlier
\* chunk has the sentinel and a later chunk a real value, the merged result
\* holds that real value.
C3_SentinelGapFilling ==
    [][ /\ (mpc = "loop" /\ chunk_i <= Len(analyses) /\ chunk_i' = chunk_i + 1) =>
               \A field \in SentinelFields :
                   Supplied(chunk_i, field) = Sentinel =>
                       PathGet(merged', field) = PathGet(merged, field)
        /\ (mpc = "loop" /\ mpc' = "returned") =>
               \A X \in Sections : \A i, j \in 1..Len(analyses) :
                   (i < j /\ Supplied(i, <<X>>) = Sentinel /\ RealValue(Supplied(j, <<X>>)))
                       => Holds(PathGet(merged', <<X>>), Supplied(j, <<X>>))
      ]_vars

(***************************************************************************)
(* C4                                                                      *)
(***************************************************************************)
RECURSIVE FoldParsed(_, _)
\* the fold of a sequence of parsed partials, a partial whose merge raises
\* leaving the accumulator as it was
FoldParsed(acc, partials) ==
    IF partials = <<>> THEN acc
    ELSE LET out == _merge_dicts(acc, Head(partials))
         IN FoldParsed(IF out = Raised THEN acc ELSE out, Tail(partials))

RECURSIVE ParseableOnly(_)
\* the parsed values of the envelopes that parse, in their order
ParseableOnly(envelopes) ==
    IF envelopes = <<>> THEN <<>>
    ELSE LET value == _parse_api_response(Head(envelopes))
         IN (IF value = Raised THEN <<>> ELSE <<value>>) \o ParseableOnly(Tail(envelopes))

\* C4: a chunk whose envelope fails to parse is skipped without failing the
\* merge: when at least one envelope parses, _merge_analyses does not raise,
\* runs its loop to the end, and returns the fold of the parseable envelopes
\* alone, taken in their original order.
C4_UnparseableSkipped ==
    (\E i \in 1..Len(analyses) : Parses(i)) =>
        /\ mpc # "raised"
        /\ mpc = "loop" =>
               merged = FoldParsed(Skeleton, ParseableOnly(SubSeq(analyses, 1, chunk_i - 1)))
        /\ MergeDone => merged = FoldParsed(Skeleton, ParseableOnly(analyses))

\* an unparseable envelope stood between two partials that were both folded
C4_Witness ==
    /\ mpc = "returned"
    /\ Len(analyses) = 3
    /\ Parses(1) /\ ~Parses(2) /\ Parses(3)
    /\ warnings = <<2>>
    /\ PathGet(merged, AmountField) = Num(5000)
    /\ PathGet(merged, TypeField) = Str(S_NDA)

(***************************************************************************)
(* C5                                                                      *)
(***************************************************************************)
\* C5: if every partial of a non-empty sequence of envelopes fails to parse,
\* merging fails with an error instead of returning a merged result: a merge
\* that returned had an envelope that parsed.
C5_AllUnparseableFails ==
    MergeDone => \E i \in 1..Len(analyses) : Parses(i)

(***************************************************************************)
(* C6                                                                      *)
(***************************************************************************)
\* the keys _create_structured_analysis subscripts under each section
SubKeys ==
    [metadata |-> {},
     classification |-> {},
     compensation |-> {"baseCompensation", "commission"},
     termination |-> {"noticePeriod", "immediateTerminationClauses",
                      "postTerminationObligations"},
     intellectualProperty |-> {"ownership", "moralRights"},
     restrictiveCovenants |-> {"nonCompete", "nonSolicitation"},
     confidentiality |-> {"scope", "duration", "exceptions"},
     liability |-> {"indemnification", "limitations"}]

ShapeComplete(acc) ==
    /\ acc.t = "dict"
    /\ \A X \in Sections :
           /\ X \in DOMAIN acc.v
           /\ acc.v[X].t = "dict"
           /\ SubKeys[X] \subseteq DOMAIN acc.v[X].v
    \* .get() is called on these two
    /\ acc.v["compensation"].v["baseCompensation"].t = "dict"
    /\ acc.v["compensation"].v["commission"].t = "dict"

\* C6: shape completeness is an invariant of the merge accumulator: from the
\* skeleton on, through every pass of the loop and after it, the accumulator
\* has all eight top-level keys, each a record, with the sub-keys the
\* typed-result assembly reads.
C6_ShapeComplete ==
    (mpc = "loop" \/ MergeDone) => ShapeComplete(merged)

\* partials with a section absent, set to the sentinel and of the wrong type
\* have all been folded, none of them skipped
C6_Witness ==
    /\ mpc = "returned"
    /\ warnings = <<>>
    /\ \E i \in 1..Len(analyses) : Supplied(i, <<"compensation">>) = Str(S_na)
    /\ \E i \in 1..Len(analyses) : Supplied(i, <<"confidentiality">>) = Sentinel
    /\ \E i \in 1..Len(analyses) : Supplied(i, <<"liability">>) = Absent /\ Parses(i)

(***************************************************************************)
(* C7                                                                      *)
(***************************************************************************)
\* C7: promotion of an accumulator produced by _merge_analyses never fails,
\* and a text field missing from the accumulator (baseCompensation
\* type/currency/frequency, commission type) is the empty string in the
\* result, a missing list the empty sequence, a missing record the empty
\* record.
C7_PromotionZeroValues ==
    /\ mpc # "promote_raised"
    /\ mpc = "promoted" =>
           LET base == <<"compensation", "baseCompensation">>
               commission == <<"compensation", "commission">>
               missing(path) == PathGet(merged, path) = Absent
           IN /\ missing(base \o <<"type">>) => structured.base_type = EmptyStr
              /\ missing(base \o <<"currency">>) => structured.base_currency = EmptyStr
              /\ missing(base \o <<"frequency">>) => structured.base_frequency = EmptyStr
              /\ missing(commission \o <<"type">>) => structured.commission_type = EmptyStr
              /\ missing(commission \o <<"tiers">>) => structured.commission_tiers = List(<<>>)
              /\ missing(commission \o <<"caps">>) => structured.commission_caps = EmptyDict

(***************************************************************************)
(* Properties of the chunker.                                              *)
(***************************************************************************)
RECURSIVE Flatten(_)
Flatten(parts) ==
    IF parts = <<>> THEN <<>> ELSE Head(parts) \o Flatten(Tail(parts))

RECURSIVE ChunkTokens(_)
\* the token count of a chunk: the sum of its sentences' token counts
ChunkTokens(chunk_sentences) ==
    IF chunk_sentences = <<>> THEN 0
    ELSE Len(Encode(Head(chunk_sentences))) + ChunkTokens(Tail(chunk_sentences))

Budget == max_tokens - ReservedTokens

\* C8: the chunks _chunk_text returns, joined with single spaces, reconstruct
\* the text: every sentence but the text's final one carries its '.', also
\* when its text equals the final sentence's, and the chunks hold the
\* sentences once each, in order.
C8_ChunksReconstructText ==
    cpc = "returned" =>
        /\ Join(chunks, <<" ">>) = text
        /\ Flatten(chunk_parts) =
               [i \in 1..Len(sentences) |->
                   IF i < Len(sentences) THEN sentences[i] \o <<".">> ELSE sentences[i]]

\* C9: chunk budget bound: with budget = max_tokens - 500, when every single
\* sentence's token count is at most the budget, every chunk returned has a
\* token count of at most the budget.
C9_ChunkWithinBudget ==
    (/\ cpc = "returned"
     /\ \A n \in 1..Len(chunk_parts) : \A k \in 1..Len(chunk_parts[n]) :
            Len(Encode(chunk_parts[n][k])) <= Budget)
        => \A n \in 1..Len(chunk_parts) : ChunkTokens(chunk_parts[n]) <= Budget

\* every sentence fits, a chunk was sealed with two sentences that fill the
\* budget, and a further chunk followed
C9_Witness ==
    /\ cpc = "returned"
    /\ \A n \in 1..Len(chunk_parts) : \A k \in 1..Len(chunk_parts[n]) :
           Len(Encode(chunk_parts[n][k])) <= Budget
    /\ Len(chunks) >= 2
    /\ Len(chunk_parts[1]) = 2
    /\ ChunkTokens(chunk_parts[1]) = Budget

\* C10: _chunk_text returns an empty sequence when the text is empty and a
\* non-empty sequence for every non-empty text.
C10_EmptyOnlyForEmptyText ==
    cpc = "returned" => (chunks = <<>> <=> text = <<>>)

\* the sentences as the loop sees them, the period added back (lines 96-97)
Processed == [i \in 1..Len(sentences) |-> WithPeriod(sentences[i], sentences)]

Oversized(sentence) == Len(Encode(sentence)) > Budget

\* C11: a sentence whose token count alone exceeds the budget
\* (max_tokens - 500) is emitted whole as a chunk that holds that sentence and
\* no other, wherever it occurs: every sentence is in the chunks, in order,
\* and a chunk holding an oversized sentence is that sentence, untruncated.
C11_OversizedSentenceAlone ==
    cpc = "returned" =>
        /\ Flatten(chunk_parts) = Processed
        /\ Len(chunks) = Len(chunk_parts)
        /\ \A n \in 1..Len(chunk_parts) : \A k \in 1..Len(chunk_parts[n]) :
               Oversized(chunk_parts[n][k]) =>
                   /\ chunk_parts[n] = <<chunk_parts[n][k]>>
                   /\ chunks[n] = chunk_parts[n][k]

\* an oversized sentence in the middle of the text, between two sentences
\* that fit, sits alone in the middle chunk
C11_Witness ==
    /\ cpc = "returned"
    /\ Len(sentences) = 3
    /\ ~Oversized(Processed[1]) /\ Oversized(Processed[2]) /\ ~Oversized(Processed[3])
    /\ Len(chunks) = 3
    /\ chunks[2] = Processed[2]

\* C28: chunking is greedy: a chunk is sealed only when the next sentence
\* would exceed the budget: for every two consecutive chunks returned, the
\* token count of the earlier chunk plus the token count of the first
\* sentence of the later chunk is strictly greater than max_tokens - 500.
C28_GreedyChunks ==
    cpc = "returned" =>
        \A n \in 1..(Len(chunk_parts) - 1) :
            ChunkTokens(chunk_parts[n]) + Len(Encode(chunk_parts[n + 1][1])) > Budget

\* a chunk of two sentences was sealed below the budget, because the third
\* sentence did not fit any more
C28_Witness ==
    /\ cpc = "returned"
    /\ Len(chunks) >= 2
    /\ Len(chunk_parts[1]) = 2
    /\ ChunkTokens(chunk_parts[1]) < Budget
    /\ ~Oversized(chunk_parts[2][1])

(***************************************************************************)
(* Properties of analyze_contract.                                         *)
(***************************************************************************)
\* C12: analyze_contract issues exactly one gateway call per chunk, in chunk
\* order, and when all calls succeed the sequence handed to _merge_analyses
\* has one envelope per chunk, the i-th being the response to the i-th chunk.
C12_OneCallPerChunkInOrder ==
    /\ \A j \in 1..Len(gateway_calls) :
           /\ j <= Len(chunks)
           /\ gateway_calls[j].content = chunks[j]
           /\ gateway_calls[j].part = j
    /\ apc \in {"merging", "returned"} =>
           /\ Len(gateway_calls) = Len(chunks)
           /\ Len(analyses) = Len(chunks)
           /\ \A i \in 1..Len(chunks) : analyses[i] = gateway_calls[i].response

\* two chunks with different texts answered by different envelopes are
\* handed to the merger
C12_Witness ==
    /\ apc = "merging" /\ mpc = "call"
    /\ Len(chunks) >= 2
    /\ chunks[1] # chunks[2]
    /\ analyses[1] # analyses[2]

\* C13: one gateway failure aborts analyze_contract: the failed call is the
\* last call made (the chunk is not called again and no later chunk is
\* called), analyze_contract has ended in an error, and neither a merge nor
\* a ContractAnalysis has been produced.
C13_GatewayFailureAborts ==
    \A j \in 1..Len(gateway_calls) :
        gateway_calls[j].response = Raised =>
            /\ j = Len(gateway_calls)
            /\ \A k \in 1..(j - 1) : gateway_calls[k].part # gateway_calls[j].part
            /\ apc = "raised"
            /\ analysis_result = Raised
            /\ mpc = "idle" /\ merged = Null /\ structured = Null

\* the call for the second of three chunks has failed
C13_Witness ==
    /\ apc = "raised"
    /\ Len(chunks) >= 3
    /\ Len(gateway_calls) = 2
    /\ gateway_calls[2].response = Raised
    /\ gateway_calls[1].response # Raised

(***************************************************************************)
(* Properties of the conversation manager.                                 *)
(***************************************************************************)
\* thread t's get_response builds and sends its request in this step
Builds(t) == chat_pc[t] = "get_response" /\ chat_pc'[t] = "awaiting"
\* thread t's get_response stores a reply in this step
Succeeds(t) == chat_pc[t] = "awaiting" /\ chat_pc'[t] = "returned"
\* thread t's get_response raises in this step
Fails(t) == chat_pc[t] = "awaiting" /\ chat_pc'[t] = "raised"

\* the history stored for a contract id
Stored(id) == Deref(HistoryRef(id))

UserTurn(content) == [role |-> "user", content |-> content]
AssistantTurn(content) == [role |-> "assistant", content |-> content]

\* C14: first turn seeding: for a contract id with no existing session, or
\* with an empty history, the outgoing message sequence of get_response is
\* exactly [synthetic user turn containing the full source text given,
\* synthetic assistant acknowledgment, current user message].
C14_FirstTurnSeeding ==
    [][\A t \in Threads :
          (/\ Builds(t)
           /\ \/ contract_id[t] \notin DOMAIN contract_contexts
              \/ Deref(chat_history[t]) = <<>>)
              => request_data'[t].messages =
                     <<UserTurn(<<"Here is the contract to analyze:\n\n">>
                                    \o contract_text[t]
                                    \o <<"\n\nPlease acknowledge that you've received the contract.">>),
                       AssistantTurn(AckContent),
                       UserTurn(message[t])>>]_vars

\* a seed, acknowledgment or context message, as opposed to a replayed turn
\* or the user's message
Grounding(m) ==
    \/ m.content[1] = "Here is the contract to analyze:\n\n"
    \/ m.content = AckContent

Replayed(history, k) ==
    [i \in 1..k |-> [role |-> history[Len(history) - k + i].role,
                     content |-> history[Len(history) - k + i].content]]

\* C15: bounded replay: for a history of length n the outgoing message
\* sequence holds exactly min(n, 3) replayed turns, the last ones in their
\* order, so apart from seed and context messages at most 4 messages (the
\* replayed turns and the new user message); the history is not shortened:
\* building leaves it as it is and a reply is appended to all n turns.
C15_BoundedReplay ==
    [][\A t \in Threads :
          LET history == Deref(chat_history[t])
              n == Len(history)
              others == SelectSeq(request_data'[t].messages, LAMBDA m : ~Grounding(m))
          IN /\ Builds(t) =>
                    /\ others = Append(Replayed(history, IF n < 3 THEN n ELSE 3),
                                        UserTurn(message[t]))
                    /\ Len(others) <= 4
                    /\ lists' = lists /\ chat_histories' = chat_histories
                    /\ history_file' = history_file
             /\ Succeeds(t) =>
                    Stored(contract_id[t])' = Append(history, chat_message'[t])]_vars

\* a request built from a history of four turns: the context message, the
\* last three turns and the user's message
C15_Witness ==
    /\ chat_pc[1] = "awaiting"
    /\ Len(Deref(chat_history[1])) = 4
    /\ Len(request_data[1].messages) = 5
    /\ request_data[1].messages[2].content = Deref(chat_history[1])[2].content

\* C16: in every outgoing message sequence built by get_response the final
\* entry is the current user message with role "user".
C16_UserMessageLast ==
    \A t \in Threads :
        chat_pc[t] = "awaiting" =>
            /\ request_data[t].messages # <<>>
            /\ request_data[t].messages[Len(request_data[t].messages)]
                   = [role |-> "user", content |-> message[t]]

\* a request built from a non-empty history by a caller that passed a text:
\* a context message, the replayed turns, the user's message
C16_Witness ==
    /\ chat_pc[1] = "awaiting"
    /\ Len(Deref(chat_history[1])) >= 2
    /\ contract_text[1] # <<>>
    /\ Len(request_data[1].messages) >= 4

\* the source text an outgoing sequence carries: what its first message
\* wraps
Carried(messages) ==
    SubSeq(messages[1].content, 2, Len(messages[1].content) - 1)

\* C17: source-text reuse: once the session of a contract id exists, a turn
\* whose sourceText argument is empty carries the session's stored source
\* text in its outgoing message sequence, also when the history is empty.
C17_SourceTextReuse ==
    [][\A t \in Threads :
          (/\ Builds(t)
           /\ contract_id[t] \in DOMAIN contract_contexts
           /\ contract_text[t] = EmptyText)
              => /\ Grounding(request_data'[t].messages[1])
                 /\ Carried(request_data'[t].messages)
                        = contract_contexts[contract_id[t]].contract_text]_vars

\* thread t's request enters the endpoint in this step
Enters(t) == chat_pc[t] = "idle" /\ chat_pc'[t] # "idle" /\ caller'[t] = "endpoint"

\* C18: persist after every successful turn: when the endpoint runs turns one
\* after another, a successful turn leaves as stored history of its contract
\* id, in memory and in the file, the history stored before with exactly the
\* new turn record appended, and the next call reads the stored history.
C18_PersistAfterTurn ==
    [][\A t \in Threads :
          /\ (Succeeds(t) /\ caller[t] = "endpoint") =>
                 /\ Stored(contract_id[t])'
                        = Append(Stored(contract_id[t]), chat_message'[t])
                 /\ contract_id[t] \in DOMAIN history_file'
                 /\ history_file'[contract_id[t]] = Stored(contract_id[t])'
          /\ Enters(t) =>
                 Deref(chat_history[t])' = Stored(contract_id'[t])]_vars

\* the second of two successful endpoint turns for one contract id: it read
\* the history the first turn stored and appended to it
C18_Witness ==
    /\ chat_pc[1] = "returned" /\ caller[1] = "endpoint"
    /\ Len(chat_messages) = 1
    /\ chat_messages[1].contract_id = contract_id[1]
    /\ Len(Stored(contract_id[1])) >= 3
    /\ Stored(contract_id[1])[Len(Stored(contract_id[1]))] = chat_message[1]
    /\ Stored(contract_id[1])[Len(Stored(contract_id[1])) - 1].id = chat_message[1].id - 1
    /\ history_file[contract_id[1]] = Stored(contract_id[1])

\* a non-success status, or a body without the content / text field
FailedResponse(r) ==
    \/ r.status # 200
    \/ "content" \notin DOMAIN r.body
    \/ r.body.content = <<>>
    \/ "text" \notin DOMAIN r.body.content[1]

\* C19: a failed turn surfaces as an error and leaves history untouched: on a
\* non-success status or a response without the content / text field
\* get_response raises, returns no reply and leaves the list objects, the
\* history table and the file as they were; the turn then ends, no request
\* is sent again.
C19_FailedTurnLeavesHistory ==
    [][\A t \in Threads :
          /\ (chat_pc[t] = "awaiting" /\ chat_pc'[t] # "awaiting"
                  /\ FailedResponse(chat_response'[t])) =>
                 /\ chat_pc'[t] = "raised"
                 /\ chat_message'[t] = Raised
                 /\ lists' = lists
                 /\ chat_histories' = chat_histories
                 /\ history_file' = history_file
          /\ chat_pc[t] = "raised" => chat_pc'[t] \in {"raised", "idle"}]_vars

\* a turn on a stored history failed on a 200 response without text
C19_Witness ==
    /\ chat_pc[1] = "raised"
    /\ chat_response[1].status = 200
    /\ chat_message[1] = Raised
    /\ Stored(contract_id[1]) # <<>>

\* C20: turns of one contract id are serialized: when two turns for the same
\* contract id overlap and both have stored their reply, the stored history
\* holds the turn records of both.
C20_NoLostTurn ==
    \A t1, t2 \in Threads :
        (/\ t1 # t2
         /\ chat_pc[t1] = "returned" /\ chat_pc[t2] = "returned"
         /\ contract_id[t1] = contract_id[t2])
            => {chat_message[t1], chat_message[t2]} \subseteq Range(Stored(contract_id[t1]))

(***************************************************************************)
(* Properties of the risk assessor.                                        *)
(***************************************************************************)
SummaryField(field) == s_summary.v[field].v

\* C22: in every result the per-severity counts sum to the total count:
\* highPriorityCount + mediumPriorityCount + lowPriorityCount = totalRisks
\* = the number of risks in the result.
C22_SeverityCountsSumToTotal ==
    spc = "returned" =>
        /\ SummaryField("highPriorityCount") + SummaryField("mediumPriorityCount")
               + SummaryField("lowPriorityCount") = SummaryField("totalRisks")
        /\ SummaryField("totalRisks") = Len(Iterate(s_risks))

CategoryAt(items, i) == Subscript(items[i], "category")

\* the risks of one category, in list order
OfCategory(items, category) ==
    LET Belongs(risk) == Subscript(risk, "category") = category
    IN SelectSeq(items, Belongs)

FirstAppearance(items, category) ==
    CHOOSE i \in DOMAIN items :
        /\ CategoryAt(items, i) = category
        /\ \A j \in 1..(i - 1) : CategoryAt(items, j) # category

RECURSIVE GroupSizes(_)
GroupSizes(entries) ==
    IF entries = <<>> THEN 0 ELSE Len(Head(entries).value) + GroupSizes(Tail(entries))

\* C23: risksByCategory partitions the parsed risks: one group per category
\* that occurs, each group holding exactly the risks of its category in
\* list order, the groups in order of first appearance of their category,
\* and the group sizes summing to totalRisks.
C23_GroupsPartitionRisks ==
    spc = "returned" =>
        LET items == Iterate(s_risks)
            entries == SummaryField("risksByCategory")
        IN /\ \A i \in DOMAIN items :
                  \E g \in DOMAIN entries : entries[g].key = CategoryAt(items, i)
           /\ \A g, h \in DOMAIN entries :
                  g < h => /\ entries[g].key # entries[h].key
                           /\ FirstAppearance(items, entries[g].key)
                                  < FirstAppearance(items, entries[h].key)
           /\ \A g \in DOMAIN entries :
                  /\ entries[g].value # <<>>
                  /\ entries[g].value = OfCategory(items, entries[g].key)
           /\ GroupSizes(entries) = SummaryField("totalRisks")

\* a category comes back after another one: two groups, the first of them
\* holding the first and the third risk
C23_Witness ==
    /\ spc = "returned"
    /\ Len(Iterate(s_risks)) = 3
    /\ CategoryAt(Iterate(s_risks), 1) = CategoryAt(Iterate(s_risks), 3)
    /\ CategoryAt(Iterate(s_risks), 1) # CategoryAt(Iterate(s_risks), 2)
    /\ Iterate(s_risks)[1] # Iterate(s_risks)[3]
    /\ Len(SummaryField("risksByCategory")) = 2
    /\ SummaryField("risksByCategory")[1].value
           = <<Iterate(s_risks)[1], Iterate(s_risks)[3]>>

\* the parsed JSON has no top-level 'risks' key, or its value is not a list
InvalidShape(data) ==
    /\ data # Raised
    /\ \/ ~ValidStructure(data)
       \/ data.v.risks.t # "list"

\* C21: when the parsed JSON of the response lacks a top-level 'risks' key
\* or its 'risks' value is not a sequence, assess_risks raises, returns no
\* result and saves nothing.
C21_InvalidShapeFails ==
    [][(/\ risk_pc = "awaiting"
        /\ risk_pc' = "assessed"
        /\ InvalidShape(AssessmentData(gateway_response')))
           => /\ assessment_result' = Raised
              /\ risk_files' = risk_files]_vars

\* the row of id holds a risk assessment
Assessed(id) ==
    /\ id \in DOMAIN analysis_results
    /\ analysis_results[id].risk_assessment # Null

\* C24: the result is persisted under the contract id: once assess_risks has
\* succeeded for the analysis of contract id c, get_cached_assessment(c)
\* returns that result as it was saved, and goes on returning the result the
\* row of c holds whatever other contract is assessed afterwards.
C24_CachedByContractId ==
    /\ (risk_caller = "endpoint" /\ risk_pc = "assessed" /\ assessment_result # Raised)
           => LoadAssessment(risk_files, risk_contract_id) = StoredForm(assessment_result)
    /\ \A id \in DOMAIN analysis_results :
           Assessed(id)
               => LoadAssessment(risk_files, id) = analysis_results[id].risk_assessment

\* a /riskassess request for id begins
Requested(id) ==
    /\ risk_pc \in {"idle", "responded"}
    /\ risk_caller' = "endpoint"
    /\ risk_contract_id' = id

\* C25: once a risk-assessment request for a contract id has completed
\* successfully (its row holds the result), every later request for that id
\* is answered with the cached result and makes no gateway call.
C25_AssessedOncePerContract ==
    [][\A id \in DOMAIN analysis_results :
           (Requested(id) /\ Assessed(id))
               => /\ risk_calls' = risk_calls
                  /\ risk_pc' = "responded"
                  /\ risk_response' =
                         [status |-> 200, body |-> analysis_results[id].risk_assessment]
                  /\ UNCHANGED <<analysis_results, risk_files>>]_vars

\* a request answered from the row: the assessor was not called, and the
\* gateway had been called for this contract before
C25_Witness ==
    /\ risk_pc = "responded"
    /\ risk_caller = "endpoint"
    /\ risk_contract_id \in DOMAIN analysis_results
    /\ assessment_result = Null
    /\ contract_analysis = Null
    /\ risk_response = [status |-> 200,
                        body |-> analysis_results[risk_contract_id].risk_assessment]
    /\ \E i \in DOMAIN risk_calls :
           risk_calls[i].analysis = analysis_results[risk_contract_id].analysis

\* assess_risks is entered
Invokes == risk_pc # "awaiting" /\ risk_pc' = "awaiting"

\* C26: every invocation of assess_risks posts exactly one request to the
\* gateway, carrying its analysis, whether or not a saved result exists for
\* the contract; no other step posts one, so a failed or a successful call
\* is never repeated.
C26_OneGatewayCallPerInvocation ==
    [][/\ Invokes =>
              /\ Len(risk_calls') = Len(risk_calls) + 1
              /\ SubSeq(risk_calls', 1, Len(risk_calls)) = risk_calls
              /\ risk_calls'[Len(risk_calls')].analysis = contract_analysis'
       /\ ~Invokes => risk_calls' = risk_calls]_vars

\* assess_risks is entered a second time for a contract whose result is
\* already saved
C26_Witness ==
    /\ risk_pc = "awaiting"
    /\ Len(risk_calls) = 2
    /\ risk_calls[1].analysis = risk_calls[2].analysis
    /\ FileName(ContractIdOf(contract_analysis)) \in DOMAIN risk_files

(***************************************************************************)
(* Properties of the merger: list union, the sentinel, duplicates.         *)
(***************************************************************************)
KeywordsField == <<"metadata", "keywords">>
ScopeField == <<"confidentiality", "scope">>
CharacteristicsField == <<"classification", "primaryCharacteristics">>
ListFields == {KeywordsField, ScopeField, CharacteristicsField}

KeySet(items) == {ComparisonKey(items[i]) : i \in 1..Len(items)}

\* two merged values are lists with the same comparison keys and length
SameContent(a, b) ==
    /\ a.t = "list" /\ b.t = "list"
    /\ KeySet(a.v) = KeySet(b.v)
    /\ Len(a.v) = Len(b.v)

\* the two partials folded in the other order
OtherOrder == FoldParsed(Skeleton, <<Parsed(2), Parsed(1)>>)

RECURSIVE HasSentinel(_)
\* the sentinel is the value of a field or an item at some depth
HasSentinel(value) ==
    \/ value = Sentinel
    \/ /\ value.t = "dict"
       /\ \E key \in DOMAIN value.v : HasSentinel(value.v[key])
    \/ /\ value.t = "list"
       /\ \E i \in 1..Len(value.v) : HasSentinel(value.v[i])

\* C29: the sentinel never reaches the merged result: at no point of the fold
\* does a field of the accumulator, at any depth, hold "not_found_in_chunk",
\* and a field for which an earlier chunk has the sentinel and a later chunk
\* a real value holds a real value of some chunk in the result.
C29_SentinelNeverMerged ==
    /\ merged # Null => ~HasSentinel(merged)
    /\ MergeDone =>
           \A field \in ScalarFields : \A i, j \in 1..Len(analyses) :
               (i < j /\ Supplied(i, field) = Sentinel /\ RealValue(Supplied(j, field)))
                   => /\ RealValue(PathGet(merged, field))
                      /\ \E k \in 1..Len(analyses) :
                             PathGet(merged, field) = Supplied(k, field)

RECURSIVE ListsIn(_)
\* the lists held by a value at any depth
ListsIn(value) ==
    IF value.t = "list"
    THEN {value.v} \cup UNION {ListsIn(value.v[i]) : i \in 1..Len(value.v)}
    ELSE IF value.t = "dict"
    THEN UNION {ListsIn(value.v[key]) : key \in DOMAIN value.v}
    ELSE {}

\* no two strings of the list are equal when case is ignored
NoDuplicates(items) ==
    \A i, j \in 1..Len(items) :
        (i < j /\ items[i].t = "str" /\ items[j].t = "str")
            => Lower(items[i].v) # Lower(items[j].v)

\* C30: every list of the merged result is free of case-insensitive
\* duplicates, whatever the partials folded.
C30_MergedListsDeduplicated ==
    MergeDone => \A items \in ListsIn(merged) : NoDuplicates(items)

(***************************************************************************)
(* C31                                                                     *)
(***************************************************************************)
\* the fold of the chunk in turn raises although its envelope parsed
FoldRaises ==
    /\ mpc = "loop" /\ chunk_i <= Len(analyses)
    /\ Parses(chunk_i)
    /\ _merge_dicts(merged, Parsed(chunk_i)) = Raised

\* C31: folding a chunk is all-or-nothing: a pass of the loop whose merge
\* raises leaves the accumulator equal to the accumulator before that chunk,
\* none of the chunk's fields applied, logs the chunk and goes on to the next
\* one; a pass whose merge does not raise sets the accumulator to the merge,
\* whatever was skipped before it.
C31_FoldAllOrNothing ==
    [][ (mpc = "loop" /\ chunk_i <= Len(analyses) /\ Parses(chunk_i)) =>
            IF FoldRaises
            THEN /\ merged' = merged
                 /\ warnings' = Append(warnings, chunk_i)
                 /\ chunk_i' = chunk_i + 1
                 /\ mpc' = "loop"
            ELSE /\ merged' = _merge_dicts(merged, Parsed(chunk_i))
                 /\ warnings' = warnings
                 /\ chunk_i' = chunk_i + 1
      ]_vars

\* a partial whose list meets the record under metadata stood between two
\* folded partials: its scope entry was not applied, the later one's was
C31_Witness ==
    /\ mpc = "returned"
    /\ Len(analyses) = 3
    /\ Parsed(1) = PartialA
    /\ Parsed(2) = PartialWrongRaises
    /\ Parsed(3) = PartialClassification
    /\ warnings = <<2>>
    /\ PathGet(merged, AmountField) = Num(5000)
    /\ PathGet(merged, <<"confidentiality", "scope">>) = List(<<Str(S_Confidentiality)>>)
    /\ PathGet(merged, <<"metadata">>) = EmptyDict

(***************************************************************************)
(* C32                                                                     *)
(***************************************************************************)
\* every record of every stored history is an assistant turn
AssistantTurnsOnly ==
    \A id \in DOMAIN chat_histories :
        \A i \in 1..Len(Stored(id)) : Stored(id)[i].role = "assistant"

\* C32: every record get_response appends to a history has role
\* "assistant" and is the only record of its turn: a successful turn stores
\* the supplied history plus one assistant record, building and failing
\* store nothing, so the user's message never enters a history and every
\* stored history holds assistant turns only; hence on every later turn (a
\* turn with a non-empty history) the first outgoing message is the context
\* message holding the session's stored source text.
C32_AssistantTurnsOnly ==
    /\ []AssistantTurnsOnly
    /\ [][\A t \in Threads :
            LET id == contract_id[t]
                history == Deref(chat_history[t])
            IN /\ Succeeds(t) =>
                      /\ Len(Stored(id)') = Len(history) + 1
                      /\ SubSeq(Stored(id)', 1, Len(history)) = history
                      /\ Stored(id)'[Len(history) + 1].role = "assistant"
                      /\ Stored(id)'[Len(history) + 1].content
                             = chat_response'[t].body.content[1].text
               /\ (Builds(t) \/ Fails(t)) =>
                      lists' = lists /\ chat_histories' = chat_histories
               /\ (Builds(t) /\ history # <<>>) =>
                      request_data'[t].messages[1] =
                          UserTurn(<<"Here is the contract to analyze:\n\n">>
                                       \o contract_contexts'[id].contract_text
                                       \o <<"\n\nPlease analyze this contract.">>)
       ]_vars

\* the second turn of the endpoint for a contract: the history holds the
\* assistant record of the first turn alone, and the request opens with the
\* stored text
C32_Witness ==
    /\ chat_pc[1] = "awaiting" /\ caller[1] = "endpoint"
    /\ contract_id[1] = "c1"
    /\ Deref(chat_history[1]) = <<[id |-> MaxStored + 1, role |-> "assistant",
                                   content |-> ReplyA, timestamp |-> MaxStored + 1]>>
    /\ Len(request_data[1].messages) = 3
    /\ request_data[1].messages[1].role = "user"
    /\ request_data[1].messages[1].content[2] = "N"
    /\ request_data[1].messages[2] = AssistantTurn(ReplyA)
    /\ request_data[1].messages[3] = UserTurn(Question)

(***************************************************************************)
(* C33                                                                     *)
(***************************************************************************)
\* C33: on every turn, the first or a later one, the outgoing message
\* sequence built by get_response is non-empty and its first entry has role
\* "user", whether or not a session existed and whatever roles the supplied
\* history holds.
C33_FirstMessageFromUser ==
    \A t \in Threads :
        chat_pc[t] \in {"awaiting", "returned", "raised"} =>
            /\ Len(request_data[t].messages) >= 1
            /\ request_data[t].messages[1].role = "user"

\* a later turn of a session that existed, with a supplied history of four
\* turns whose first is the user's but whose replayed window opens with a
\* system turn: the context message comes first
C33_Witness ==
    /\ chat_pc[1] = "awaiting" /\ caller[1] = "direct"
    /\ now > MaxStored + 1
    /\ Len(Deref(chat_history[1])) = 4
    /\ Deref(chat_history[1])[1].role = "user"
    /\ Deref(chat_history[1])[2].role = "system"
    /\ Len(request_data[1].messages) = 5
    /\ request_data[1].messages[1].role = "user"
    /\ request_data[1].messages[2].role = "system"

(***************************************************************************)
(* C34                                                                     *)
(***************************************************************************)
\* the contract id of the turn thread t is in, or enters in this step
TurnOf(t) == IF contract_id[t] # "none" THEN contract_id[t] ELSE contract_id'[t]

\* thread t takes this step
Steps(t) == chat_pc'[t] # chat_pc[t]

\* the session of a contract id, Null when it has none
SessionOf(id) ==
    IF id \in DOMAIN contract_contexts THEN contract_contexts[id] ELSE Null

\* the history the file holds for a contract id
Filed(id) == IF id \in DOMAIN history_file THEN history_file[id] ELSE <<>>

\* C34: every step of a turn for contract id A (entering, building,
\* replying or failing, answering) leaves the session (source text and
\* system prompt) and the stored history, in memory and in the file, of
\* every other contract id B as they were.
C34_OtherContractsUntouched ==
    [][\A t \in Threads : Steps(t) =>
          \A B \in ContractIds \ {TurnOf(t)} :
              /\ SessionOf(B)' = SessionOf(B)
              /\ (B \in DOMAIN chat_histories') = (B \in DOMAIN chat_histories)
              /\ Stored(B)' = Stored(B)
              /\ Filed(B)' = Filed(B)
      ]_vars

\* a turn for c1 has stored its reply while c2 holds a session and a history
\* of a stored turn and a turn of this run
C34_Witness ==
    /\ chat_pc[1] = "returned" /\ contract_id[1] = "c1"
    /\ "c2" \in DOMAIN contract_contexts
    /\ contract_contexts["c2"].contract_text = TextB
    /\ Len(Stored("c2")) = 2
    /\ Stored("c2")[2].id = MaxStored + 1
    /\ Filed("c2") = Stored("c2")
    /\ Stored("c1")[Len(Stored("c1"))].id = MaxStored + 2

(***************************************************************************)
(* C35                                                                     *)
(***************************************************************************)
\* C35: a session is never removed and never changes: in every step every
\* contract id that has a session keeps it with the same source text and
\* system prompt, and a session that appears holds the source text of the
\* call that creates it (the text the endpoint extracted, or the
\* contract_text argument of get_response) and the fixed system prompt.
C35_SessionCreatedOnceAndKept ==
    [][/\ \A id \in DOMAIN contract_contexts :
             /\ id \in DOMAIN contract_contexts'
             /\ contract_contexts'[id].contract_text = contract_contexts[id].contract_text
             /\ contract_contexts'[id].system_prompt = contract_contexts[id].system_prompt
       /\ \A id \in DOMAIN contract_contexts' \ DOMAIN contract_contexts :
             \E t \in Threads :
                 /\ Steps(t) /\ contract_id'[t] = id
                 /\ contract_contexts'[id] =
                        [contract_text |-> contract_text'[t],
                         system_prompt |-> SystemPrompt]
      ]_vars

\* the session of c1 was created with the extracted text; after a turn that
\* stored a reply, a direct call passing another text has failed, and the
\* session holds the first text
C35_Witness ==
    /\ chat_pc[1] = "raised" /\ caller[1] = "direct"
    /\ contract_id[1] = "c1"
    /\ contract_text[1] = TextB
    /\ now > MaxStored + 1
    /\ contract_contexts["c1"] = [contract_text |-> TextA, system_prompt |-> SystemPrompt]
    /\ request_data[1].system = SystemPrompt

====
